---------------------------- MODULE Spec2Model ----------------------------
(***************************************************************************)
(* Model of the /voice webhook of the Ahad and Co voice agent              *)
(* (src/unnamed/part_003): the per-call conversation record, the turn      *)
(* handler with its suspension points, and the two outcome dispatches.     *)
(*                                                                         *)
(* Text is modelled by TLA+ strings; TLC evaluates Len, SubSeq and \o on   *)
(* them, so the regular expressions of the source are written out as       *)
(* operators over the characters of the utterance.                         *)
(***************************************************************************)
EXTENDS Naturals, Sequences, FiniteSets, TLC

(***************************************************************************)
(* Characters and the string primitives the regular expressions need.      *)
(***************************************************************************)
NULL == "<null>"

Char(s, i) == SubSeq(s, i, i)

Digit == {"0", "1", "2", "3", "4", "5", "6", "7", "8", "9"}

LowerLetter == {"a", "b", "c", "d", "e", "f", "g", "h", "i", "j", "k", "l", "m",
                "n", "o", "p", "q", "r", "s", "t", "u", "v", "w", "x", "y", "z"}

UpperLetter == {"A", "B", "C", "D", "E", "F", "G", "H", "I", "J", "K", "L", "M",
                "N", "O", "P", "Q", "R", "S", "T", "U", "V", "W", "X", "Y", "Z"}

ToLowerTable ==
    [c \in UpperLetter |->
        CASE c = "A" -> "a" [] c = "B" -> "b" [] c = "C" -> "c" [] c = "D" -> "d"
          [] c = "E" -> "e" [] c = "F" -> "f" [] c = "G" -> "g" [] c = "H" -> "h"
          [] c = "I" -> "i" [] c = "J" -> "j" [] c = "K" -> "k" [] c = "L" -> "l"
          [] c = "M" -> "m" [] c = "N" -> "n" [] c = "O" -> "o" [] c = "P" -> "p"
          [] c = "Q" -> "q" [] c = "R" -> "r" [] c = "S" -> "s" [] c = "T" -> "t"
          [] c = "U" -> "u" [] c = "V" -> "v" [] c = "W" -> "w" [] c = "X" -> "x"
          [] c = "Y" -> "y" [] c = "Z" -> "z"]

ToUpperTable ==
    [c \in LowerLetter |->
        CASE c = "a" -> "A" [] c = "b" -> "B" [] c = "c" -> "C" [] c = "d" -> "D"
          [] c = "e" -> "E" [] c = "f" -> "F" [] c = "g" -> "G" [] c = "h" -> "H"
          [] c = "i" -> "I" [] c = "j" -> "J" [] c = "k" -> "K" [] c = "l" -> "L"
          [] c = "m" -> "M" [] c = "n" -> "N" [] c = "o" -> "O" [] c = "p" -> "P"
          [] c = "q" -> "Q" [] c = "r" -> "R" [] c = "s" -> "S" [] c = "t" -> "T"
          [] c = "u" -> "U" [] c = "v" -> "V" [] c = "w" -> "W" [] c = "x" -> "X"
          [] c = "y" -> "Y" [] c = "z" -> "Z"]

\* The \w class of the source's regular expressions.
IsWordChar(c) == c \in LowerLetter \cup UpperLetter \cup Digit \cup {"_"}

\* The \s class, for the white space a transcript can hold.
IsSpace(c) == c = " "

\* String.prototype.toLowerCase
LowerOf(c) == IF c \in UpperLetter THEN ToLowerTable[c] ELSE c

RECURSIVE ToLowerCase(_)
ToLowerCase(s) ==
    IF s = "" THEN "" ELSE LowerOf(Char(s, 1)) \o ToLowerCase(SubSeq(s, 2, Len(s)))

\* String.prototype.trim
RECURSIVE TrimLeft(_)
TrimLeft(s) ==
    IF s # "" /\ IsSpace(Char(s, 1)) THEN TrimLeft(SubSeq(s, 2, Len(s))) ELSE s

RECURSIVE TrimRight(_)
TrimRight(s) ==
    IF s # "" /\ IsSpace(Char(s, Len(s))) THEN TrimRight(SubSeq(s, 1, Len(s) - 1)) ELSE s

Trim(s) == TrimRight(TrimLeft(s))

\* p occurs in s at position i.
OccursAt(s, p, i) == i >= 1 /\ i + Len(p) - 1 <= Len(s) /\ SubSeq(s, i, i + Len(p) - 1) = p

\* /p/.test(s) for a literal p.
Contains(s, p) == \E i \in 1..(Len(s) - Len(p) + 1) : OccursAt(s, p, i)

\* /p1|p2|.../.test(s) for literals.
ContainsAny(s, ps) == \E p \in ps : Contains(s, p)

\* /^p/.test(s)
StartsWith(s, p) == OccursAt(s, p, 1)

StartsWithAny(s, ps) == \E p \in ps : StartsWith(s, p)

\* /a.*b/.test(s): a, then b anywhere after it.
ContainsThen(s, a, b) ==
    \E i \in 1..Len(s) : OccursAt(s, a, i) /\ Contains(SubSeq(s, i + Len(a), Len(s)), b)

\* A \b on each side of the word w found at position i of s (w begins and
\* ends with a word character).
WordAt(s, w, i) ==
    /\ OccursAt(s, w, i)
    /\ (i = 1 \/ ~IsWordChar(Char(s, i - 1)))
    /\ (i + Len(w) - 1 = Len(s) \/ ~IsWordChar(Char(s, i + Len(w))))

\* /\b(w1|w2|...)\b/.test(s)
ContainsWord(s, ws) == \E w \in ws : \E i \in 1..Len(s) : WordAt(s, w, i)

\* s.replace(/\D/g, '')
RECURSIVE DigitsOf(_)
DigitsOf(s) ==
    IF s = "" THEN ""
    ELSE (IF Char(s, 1) \in Digit THEN Char(s, 1) ELSE "") \o DigitsOf(SubSeq(s, 2, Len(s)))

\* s.slice(-n)
SliceLast(s, n) == IF Len(s) <= n THEN s ELSE SubSeq(s, Len(s) - n + 1, Len(s))


(***************************************************************************)
(* Calendar slots.  A slot is the pair the handler reads: the machine      *)
(* timestamp and the spoken rendering.                                     *)
(***************************************************************************)
\* Date.prototype.toLocaleDateString is outside the model: the rendering of a
\* timestamp is an opaque text that depends on the timestamp only.
formatSlotForSpeech(time) == "date " \o time

MakeSlot(time) == [iso |-> time, displayText |-> formatSlotForSpeech(time)]

NoSlot == [iso |-> NULL, displayText |-> NULL]

\* What the calendar service can answer: an error, or its open times in
\* date order.
MaxOpenTimes == 2

CalendarTimes == <<"T1", "T2", "T3", "T4", "T5", "T6", "T7">>

CalendarAnswers ==
    {[error |-> TRUE, times |-> <<>>]}
        \cup {[error |-> FALSE, times |-> SubSeq(CalendarTimes, 1, n)] : n \in 0..MaxOpenTimes}

SlotsReturned == 5

\* getCalendarAvailability: null when Cal.com is not configured or the request
\* fails, else the first five open times as slots.
getCalendarAvailability(configured, answer) ==
    IF ~configured \/ answer.error
    THEN [isNull |-> TRUE, slots |-> <<>>]
    ELSE LET n == IF Len(answer.times) < SlotsReturned THEN Len(answer.times) ELSE SlotsReturned
         IN  [isNull |-> FALSE, slots |-> [i \in 1..n |-> MakeSlot(answer.times[i])]]

(***************************************************************************)
(* detectSlotAcceptance                                                    *)
(***************************************************************************)
\* /(^|\s)(w1|w2|...)($|[\s.,!])/.test(s)
TokenAt(s, w, i) ==
    /\ OccursAt(s, w, i)
    /\ (i = 1 \/ IsSpace(Char(s, i - 1)))
    /\ (i + Len(w) - 1 = Len(s) \/ Char(s, i + Len(w)) \in {" ", ".", ",", "!"})

ContainsToken(s, ws) == \E w \in ws : \E i \in 1..Len(s) : TokenAt(s, w, i)

AcceptanceWords ==
    {"yes", "yeah", "sure", "ok", "okay", "that works", "that's good", "sounds good",
     "perfect", "works for me", "good", "great", "fine", "either", "both", "any"}

OrdinalWords ==
    <<{"first", "1", "one"}, {"second", "2", "two"}, {"third", "3", "three"},
      {"fourth", "4", "four"}, {"fifth", "5", "five"}>>

\* The five ordinal tests in source order: the first whose words occur and whose
\* slot exists; 0 when none does.
OrdinalChoice(lower, offeredSlots) ==
    IF ContainsAny(lower, OrdinalWords[1]) /\ Len(offeredSlots) >= 1 THEN 1
    ELSE IF ContainsAny(lower, OrdinalWords[2]) /\ Len(offeredSlots) >= 2 THEN 2
    ELSE IF ContainsAny(lower, OrdinalWords[3]) /\ Len(offeredSlots) >= 3 THEN 3
    ELSE IF ContainsAny(lower, OrdinalWords[4]) /\ Len(offeredSlots) >= 4 THEN 4
    ELSE IF ContainsAny(lower, OrdinalWords[5]) /\ Len(offeredSlots) >= 5 THEN 5
    ELSE 0

\* The slot the caller takes: the one counted out, else the first one on a
\* word of acceptance.
ChosenSlot(k, lower, offeredSlots) ==
    IF k > 0 THEN offeredSlots[k]
    ELSE IF ContainsToken(lower, AcceptanceWords) THEN offeredSlots[1]
    ELSE NoSlot

AcceptedSlot(lower, offeredSlots) ==
    ChosenSlot(OrdinalChoice(lower, offeredSlots), lower, offeredSlots)

detectSlotAcceptance(speech, offeredSlots) ==
    IF Len(offeredSlots) = 0 THEN NoSlot
    ELSE AcceptedSlot(Trim(ToLowerCase(speech)), offeredSlots)

(***************************************************************************)
(* detectIntentByKeywords                                                  *)
(***************************************************************************)
InquiryKeywords ==
    {"inquir", "question", "information", "tell me about", "what do you", "ask about",
     "tax services", "speak to", "talk to", "someone", "person", "representative",
     "human", "give me a name", "looking for"}

IsOfficeHoursSpeech(lower) ==
    \/ ContainsAny(lower, {"office hours", "what time", "hours", "open", "times",
                            "available times"})
    \/ ContainsThen(lower, "when", "open")

IsAppointmentSpeech(lower) ==
    \/ ContainsAny(lower, {"appointment", "book", "schedule", "consultation", "set up",
                            "meeting", "slot"})
    \/ ContainsThen(lower, "make", "appointment")

CallbackKeywords ==
    {"i'll call back", "call you back", "call back later", "i will call back",
     "calling back"}

IsMessageSpeech(lower) ==
    \/ Contains(lower, "message")
    \/ ContainsThen(lower, "leave", "message")
    \/ ContainsThen(lower, "voice", "mail")

\* The keyword tests as they would be with the test for a booking first.
KeywordIntentBookingFirst(lower) ==
    IF IsAppointmentSpeech(lower) THEN "appointment"
    ELSE IF ContainsAny(lower, InquiryKeywords) THEN "inquiry"
    ELSE IF IsOfficeHoursSpeech(lower) THEN "office_hours_question"
    ELSE IF ContainsAny(lower, CallbackKeywords) THEN "callback"
    ELSE IF IsMessageSpeech(lower) THEN "message"
    ELSE "unclear"

\* The keyword tests, in source order, on the lower-cased speech.
KeywordIntent(lower) ==
    IF ContainsAny(lower, InquiryKeywords) THEN "inquiry"
    ELSE IF IsOfficeHoursSpeech(lower) THEN "office_hours_question"
    ELSE IF IsAppointmentSpeech(lower) THEN "appointment"
    ELSE IF ContainsAny(lower, CallbackKeywords) THEN "callback"
    ELSE IF IsMessageSpeech(lower) THEN "message"
    ELSE "unclear"

detectIntentByKeywords(speech) == KeywordIntent(ToLowerCase(speech))

(***************************************************************************)
(* String rewriting used by the extractors.                                *)
(***************************************************************************)
Min(S) == CHOOSE x \in S : \A y \in S : x <= y

\* Index of the first character at or after i that is not white space
\* (Len(s) + 1 when there is none).
RECURSIVE SkipSpaces(_, _)
SkipSpaces(s, i) == IF i <= Len(s) /\ IsSpace(Char(s, i)) THEN SkipSpaces(s, i + 1) ELSE i

\* s.replace(/^(a1|a2|...)\s*/i, '') where the alternatives in commaAlts carry
\* an optional comma (",?"); alts is in source order.
\* s without its first n characters and the white space after them.
DropLeading(s, n) == SubSeq(s, SkipSpaces(s, n + 1), Len(s))

\* s without the alternative a it starts with.
StripAlternative(s, a, commaAlts) ==
    DropLeading(s, IF a \in commaAlts /\ OccursAt(s, ",", Len(a) + 1) THEN Len(a) + 1
                   ELSE Len(a))

\* hits: the alternatives s starts with.
StripFirstOf(s, alts, commaAlts, hits) ==
    IF hits = {} THEN s ELSE StripAlternative(s, alts[Min(hits)], commaAlts)

LeadingAlternatives(low, alts) == {k \in 1..Len(alts) : StartsWith(low, alts[k])}

StripLeading(s, alts, commaAlts) ==
    StripFirstOf(s, alts, commaAlts, LeadingAlternatives(ToLowerCase(s), alts))

\* s.replace(/p/g, r) for a literal p.
RECURSIVE ReplaceAll(_, _, _)
ReplaceAll(s, p, r) ==
    IF s = "" THEN ""
    ELSE IF StartsWith(s, p) THEN r \o ReplaceAll(SubSeq(s, Len(p) + 1, Len(s)), p, r)
    ELSE Char(s, 1) \o ReplaceAll(SubSeq(s, 2, Len(s)), p, r)

\* s.replace(/c\s*/g, ' ') when minSpaces = 0 and s.replace(/c\s+/g, ' ') when
\* minSpaces = 1, for a single character c.
RECURSIVE ReplaceCharThenSpaces(_, _, _)
ReplaceCharThenSpaces(s, c, minSpaces) ==
    IF s = "" THEN ""
    ELSE IF Char(s, 1) = c /\ SkipSpaces(s, 2) - 2 >= minSpaces
         THEN " " \o ReplaceCharThenSpaces(SubSeq(s, SkipSpaces(s, 2), Len(s)), c, minSpaces)
    ELSE Char(s, 1) \o ReplaceCharThenSpaces(SubSeq(s, 2, Len(s)), c, minSpaces)

\* s.replace(/\s+p\s*/g, r) when minAfter = 0 and s.replace(/\s+p\s+/g, r) when
\* minAfter = 1, for a literal p.
RECURSIVE ReplaceSpaced(_, _, _, _)
ReplaceSpaced(s, p, r, minAfter) ==
    IF s = "" THEN ""
    ELSE IF /\ SkipSpaces(s, 1) > 1
            /\ OccursAt(s, p, SkipSpaces(s, 1))
            /\ SkipSpaces(s, SkipSpaces(s, 1) + Len(p)) - (SkipSpaces(s, 1) + Len(p)) >= minAfter
    THEN r \o ReplaceSpaced(SubSeq(s, IF minAfter = 0 THEN SkipSpaces(s, 1) + Len(p)
                                       ELSE SkipSpaces(s, SkipSpaces(s, 1) + Len(p)), Len(s)),
                            p, r, minAfter)
    ELSE Char(s, 1) \o ReplaceSpaced(SubSeq(s, 2, Len(s)), p, r, minAfter)

\* s.replace(/\s+/g, ' ')
RECURSIVE CollapseSpaces(_)
CollapseSpaces(s) ==
    IF s = "" THEN ""
    ELSE IF IsSpace(Char(s, 1)) THEN " " \o CollapseSpaces(SubSeq(s, SkipSpaces(s, 1), Len(s)))
    ELSE Char(s, 1) \o CollapseSpaces(SubSeq(s, 2, Len(s)))

\* s.replace(/\s+/g, '')
RECURSIVE RemoveSpaces(_)
RemoveSpaces(s) ==
    IF s = "" THEN ""
    ELSE (IF IsSpace(Char(s, 1)) THEN "" ELSE Char(s, 1)) \o RemoveSpaces(SubSeq(s, 2, Len(s)))

\* s.replace(/cc+/g, c): every run of two or more c becomes one c.
RECURSIVE CollapseRepeats(_, _)
CollapseRepeats(s, c) ==
    IF s = "" THEN ""
    ELSE IF Char(s, 1) = c /\ Len(s) >= 2 /\ Char(s, 2) = c
         THEN CollapseRepeats(SubSeq(s, 2, Len(s)), c)
    ELSE Char(s, 1) \o CollapseRepeats(SubSeq(s, 2, Len(s)), c)

\* s.replace(/^c+/, '') and s.replace(/c+$/, '')
RECURSIVE StripLeadingChar(_, _)
StripLeadingChar(s, c) ==
    IF s # "" /\ Char(s, 1) = c THEN StripLeadingChar(SubSeq(s, 2, Len(s)), c) ELSE s

RECURSIVE StripTrailingChar(_, _)
StripTrailingChar(s, c) ==
    IF s # "" /\ Char(s, Len(s)) = c THEN StripTrailingChar(SubSeq(s, 1, Len(s) - 1), c) ELSE s

\* The characters of s that are in keep, in order.
RECURSIVE KeepChars(_, _)
KeepChars(s, keep) ==
    IF s = "" THEN ""
    ELSE (IF Char(s, 1) \in keep THEN Char(s, 1) ELSE "") \o KeepChars(SubSeq(s, 2, Len(s)), keep)

\* s.replace(/\bw\b/g, r), scanning s from position i.
RECURSIVE ReplaceWordFrom(_, _, _, _)
ReplaceWordFrom(s, w, r, i) ==
    IF i > Len(s) THEN ""
    ELSE IF WordAt(s, w, i) THEN r \o ReplaceWordFrom(s, w, r, i + Len(w))
    ELSE Char(s, i) \o ReplaceWordFrom(s, w, r, i + 1)

ReplaceWord(s, w, r) == IF Contains(s, w) THEN ReplaceWordFrom(s, w, r, 1) ELSE s

\* s.indexOf(' '), 1-based, for an s with a space.
FirstSpace(s) == Min({k \in 1..Len(s) : Char(s, k) = " "})

\* s.split(' '): the pieces between single spaces.
RECURSIVE SplitOnSpace(_)
SplitOnSpace(s) ==
    IF ~Contains(s, " ") THEN <<s>>
    ELSE <<SubSeq(s, 1, FirstSpace(s) - 1)>> \o SplitOnSpace(SubSeq(s, FirstSpace(s) + 1, Len(s)))

\* s.split(/\s+/): the pieces between runs of white space.
RECURSIVE SplitOnSpaces(_)
SplitOnSpaces(s) ==
    IF ~Contains(s, " ") THEN <<s>>
    ELSE <<SubSeq(s, 1, FirstSpace(s) - 1)>>
             \o SplitOnSpaces(SubSeq(s, SkipSpaces(s, FirstSpace(s)), Len(s)))

\* words.join(sep)
RECURSIVE Join(_, _)
Join(words, sep) ==
    IF Len(words) = 0 THEN ""
    ELSE IF Len(words) = 1 THEN words[1]
    ELSE words[1] \o sep \o Join(Tail(words), sep)

SingleLetterCount(words) == Cardinality({k \in 1..Len(words) : Len(words[k]) = 1})

(***************************************************************************)
(* extractName                                                             *)
(***************************************************************************)
NameFillers == <<"sure", "okay", "yes", "yeah", "um", "uh", "well">>

NameIntros ==
    <<"my first name is", "my last name is", "my name is", "it's", "i'm", "this is",
      "the name is", "i am", "call me">>

SentencePhrases ==
    {"would like", "want to", "need to", "have to", "going to", "trying to",
     "call me back", "call back", "about the", "about my", "someone", "please"}

\* name.replace(/[.,!?]$/g, '')
DropFinalPunctuation(s) ==
    IF s # "" /\ Char(s, Len(s)) \in {".", ",", "!", "?"} THEN SubSeq(s, 1, Len(s) - 1) ELSE s

\* Spelled-out letters ("T E S T"): more than half of more than two words are
\* single characters; they are joined, lower-cased and capitalised.
UpperOf(c) == IF c \in LowerLetter THEN ToUpperTable[c] ELSE c

\* The first character in upper case.
Capitalised(joined) == UpperOf(Char(joined, 1)) \o SubSeq(joined, 2, Len(joined))

JoinedIfSpelled(name, words) ==
    IF 2 * SingleLetterCount(words) > Len(words) /\ Len(words) > 2
    THEN Capitalised(ToLowerCase(Join(words, "")))
    ELSE name

JoinSpelledName(name) == JoinedIfSpelled(name, SplitOnSpace(name))

\* name.split(' ').slice(0, 3).join(' ') when there are more than three words
AtMostThree(name, finalWords) ==
    IF Len(finalWords) > 3 THEN Join(SubSeq(finalWords, 1, 3), " ") ELSE name

FirstThreeWords(name) == AtMostThree(name, SplitOnSpace(name))

\* The fillers and the introductions are removed from the front.
WithoutIntroduction(name) ==
    StripLeading(StripLeading(name, NameFillers, {NameFillers[k] : k \in 1..Len(NameFillers)}),
                 NameIntros, {})

\* Periods and commas become spaces, and runs of spaces one space.
WithoutPunctuation(name) ==
    Trim(CollapseSpaces(ReplaceCharThenSpaces(ReplaceCharThenSpaces(name, ".", 0), ",", 0)))

\* A question, a sentence or a text starting with "I " is not a name.
ValidatedName(name) ==
    IF Contains(name, "?") THEN ""
    ELSE IF ContainsWord(ToLowerCase(name), SentencePhrases) THEN ""
    ELSE IF Len(name) >= 2 /\ Char(name, 1) \in {"I", "i"} /\ IsSpace(Char(name, 2)) THEN ""
    ELSE FirstThreeWords(name)

extractName(speech) ==
    ValidatedName(
        JoinSpelledName(
            WithoutPunctuation(DropFinalPunctuation(WithoutIntroduction(Trim(speech))))))

(***************************************************************************)
(* extractEmail                                                            *)
(***************************************************************************)
EmailFillers ==
    <<"sure", "okay", "yes", "yeah", "um", "uh", "so", "well", "it's", "it is",
      "my email address is", "my email is", "the email is", "that's", "that is">>

EmailCommaFillers == {"sure", "okay", "yes", "yeah", "um", "uh", "so", "well"}

\* phoneticMap, in the order Object.entries yields it.
phoneticMap ==
    << <<"alpha", "a">>, <<"bravo", "b">>, <<"charlie", "c">>, <<"delta", "d">>,
       <<"echo", "e">>, <<"foxtrot", "f">>, <<"golf", "g">>, <<"hotel", "h">>,
       <<"india", "i">>, <<"juliet", "j">>, <<"kilo", "k">>, <<"lima", "l">>,
       <<"mike", "m">>, <<"november", "n">>, <<"oscar", "o">>, <<"papa", "p">>,
       <<"quebec", "q">>, <<"romeo", "r">>, <<"sierra", "s">>, <<"tango", "t">>,
       <<"uniform", "u">>, <<"victor", "v">>, <<"whiskey", "w">>, <<"xray", "x">>,
       <<"yankee", "y">>, <<"zulu", "z">>,
       <<"ay", "a">>, <<"aye", "a">>, <<"eh", "a">>,
       <<"bee", "b">>, <<"be", "b">>,
       <<"see", "c">>, <<"sea", "c">>, <<"cee", "c">>,
       <<"dee", "d">>, <<"de", "d">>,
       <<"ee", "e">>, <<"eee", "e">>,
       <<"eff", "f">>, <<"ef", "f">>,
       <<"gee", "g">>, <<"ge", "g">>, <<"ji", "g">>,
       <<"aitch", "h">>, <<"ach", "h">>, <<"eich", "h">>,
       <<"eye", "i">>, <<"ai", "i">>,
       <<"jay", "j">>, <<"jey", "j">>,
       <<"kay", "k">>, <<"key", "k">>, <<"kei", "k">>,
       <<"el", "l">>, <<"ell", "l">>,
       <<"em", "m">>, <<"emm", "m">>,
       <<"en", "n">>, <<"enn", "n">>,
       <<"oh", "o">>, <<"owe", "o">>,
       <<"pee", "p">>, <<"pe", "p">>,
       <<"cue", "q">>, <<"que", "q">>, <<"queue", "q">>,
       <<"are", "r">>, <<"ar", "r">>, <<"arr", "r">>,
       <<"ess", "s">>, <<"es", "s">>, <<"ass", "s">>,
       <<"tee", "t">>, <<"te", "t">>, <<"tea", "t">>,
       <<"you", "u">>, <<"yu", "u">>, <<"ewe", "u">>,
       <<"vee", "v">>, <<"ve", "v">>,
       <<"double you", "w">>, <<"double u", "w">>, <<"dub", "w">>, <<"dubya", "w">>,
       <<"ex", "x">>, <<"ecks", "x">>,
       <<"why", "y">>, <<"wye", "y">>,
       <<"zee", "z">>, <<"zed", "z">>,
       <<"zero", "0">>, <<"one", "1">>, <<"two", "2">>, <<"too", "2">>, <<"to", "2">>,
       <<"three", "3">>, <<"four", "4">>, <<"for", "4">>, <<"fore", "4">>,
       <<"five", "5">>, <<"six", "6">>, <<"seven", "7">>, <<"eight", "8">>,
       <<"ate", "8">>, <<"nine", "9">>, <<"niner", "9">> >>

\* The pieces of s of at most n characters.
Substrings(s, n) ==
    UNION {{SubSeq(s, i, j) : j \in i..(IF i + n - 1 < Len(s) THEN i + n - 1 ELSE Len(s))} :
              i \in 1..Len(s)}

LongestKey == 10

\* The entries from lo on whose key is one of the pieces.
KeysPresent(pieces, lo) == {k \in lo..Len(phoneticMap) : phoneticMap[k][1] \in pieces}

\* email.replace(regex, letter) for entry k.
ReplaceEntry(email, k) == ReplaceWordFrom(email, phoneticMap[k][1], phoneticMap[k][2], 1)

\* The loop over Object.entries(phoneticMap), from entry lo on: the entries
\* whose key does not occur in the text leave it as it is, so the loop moves
\* to the first entry whose key occurs, applies it and goes on after it.
RECURSIVE ReplacePhonetic(_, _)
RECURSIVE ReplaceFirstOf(_, _)
ReplacePhonetic(email, lo) == ReplaceFirstOf(email, KeysPresent(Substrings(email, LongestKey), lo))

ReplaceFirstOf(email, present) ==
    IF present = {} THEN email
    ELSE ReplacePhonetic(ReplaceEntry(email, Min(present)), Min(present) + 1)

\* Spelled letters ("s a e e d ..."): more than three words, more than half of
\* them single characters; joined, with the periods of the short words removed.
JoinedLetters(email, words) ==
    IF Len(words) > 3 /\ 2 * SingleLetterCount(words) > Len(words)
    THEN Join([k \in 1..Len(words) |->
                  IF Len(words[k]) <= 2 THEN ReplaceAll(words[k], ".", "")
                  ELSE words[k]], "")
    ELSE email

JoinSpelledEmail(email) == JoinedLetters(email, SplitOnSpaces(email))

\* /^[a-z](\.[a-z])+$/i.test(username)
IsDottedLetters(username) ==
    /\ Len(username) >= 3
    /\ Len(username) % 2 = 1
    /\ \A i \in 1..Len(username) :
          IF i % 2 = 1 THEN Char(username, i) \in LowerLetter \cup UpperLetter
          ELSE Char(username, i) = "."

\* /\.[a-z]\./i.test(username)
HasLetterBetweenDots(username) ==
    \E i \in 1..(Len(username) - 2) :
        /\ Char(username, i) = "."
        /\ Char(username, i + 1) \in LowerLetter \cup UpperLetter
        /\ Char(username, i + 2) = "."

\* email.indexOf('@'), 1-based; 0 when there is none.
IndexOfAt(email) ==
    IF Contains(email, "@") THEN Min({i \in 1..Len(email) : Char(email, i) = "@"}) ELSE 0

\* The periods between the letters of a spelled username are removed.
WithoutLetterDots(username) ==
    IF IsDottedLetters(username) \/ HasLetterBetweenDots(username)
    THEN ReplaceAll(username, ".", "") ELSE username

CleanUsername(email) ==
    IF ~Contains(email, "@") THEN email
    ELSE WithoutLetterDots(SubSeq(email, 1, IndexOfAt(email) - 1))
             \o SubSeq(email, IndexOfAt(email), Len(email))

EmailChars == LowerLetter \cup Digit \cup {"@", ".", "_", "-"}

\* Lower case, without the fillers at the front.
WithoutEmailFillers(speech) ==
    StripLeading(Trim(ToLowerCase(speech)), EmailFillers, EmailCommaFillers)

\* The punctuation the transcription puts between spelled letters.
DropFirstPeriod(email) == IF StartsWith(email, ".") THEN SubSeq(email, 2, Len(email)) ELSE email

WithoutSpellingPunctuation(email) ==
    ReplaceAll(
        DropFirstPeriod(
            ReplaceSpaced(ReplaceCharThenSpaces(ReplaceCharThenSpaces(email, ".", 1), ",", 0),
                          ".", " ", 0)),
        " . ", " ")

\* "at" becomes @, and "dot", "period" and "point" a period.
SpokenSymbols(email) ==
    ReplaceWord(
        ReplaceWord(
            ReplaceWord(
                ReplaceSpaced(ReplaceWord(ReplaceSpaced(email, "at", "@", 1), "at", "@"),
                              "dot", ".", 1),
                "dot", "."),
            "period", "."),
        "point", ".")

\* Stray and repeated periods and @ are removed, and every character an
\* address cannot hold.
CleanedAddress(email) ==
    KeepChars(
        ReplaceAll(
            ReplaceAll(
                CollapseRepeats(
                    CollapseRepeats(StripLeadingChar(StripTrailingChar(email, "."), "."), "@"),
                    "."),
                "@.", "@"),
            ".@", "@"),
        EmailChars)

\* An address has an @.
ValidatedEmail(email) == IF Contains(email, "@") THEN email ELSE ""

extractEmail(speech) ==
    ValidatedEmail(
        CleanedAddress(
            CleanUsername(
                RemoveSpaces(
                    JoinSpelledEmail(
                        SpokenSymbols(
                            ReplacePhonetic(
                                WithoutSpellingPunctuation(WithoutEmailFillers(speech)), 1)))))))

(***************************************************************************)
(* Speech rendering of an email address and of a phone number.             *)
(***************************************************************************)
commonDomains ==
    [d \in {"gmail.com", "yahoo.com", "hotmail.com", "outlook.com", "aol.com",
            "icloud.com", "msn.com", "live.com", "comcast.net", "verizon.net",
            "att.net", "me.com", "mac.com", "protonmail.com", "mail.com"} |->
        CASE d = "gmail.com" -> "gmail dot com"
          [] d = "yahoo.com" -> "yahoo dot com"
          [] d = "hotmail.com" -> "hotmail dot com"
          [] d = "outlook.com" -> "outlook dot com"
          [] d = "aol.com" -> "A O L dot com"
          [] d = "icloud.com" -> "icloud dot com"
          [] d = "msn.com" -> "M S N dot com"
          [] d = "live.com" -> "live dot com"
          [] d = "comcast.net" -> "comcast dot net"
          [] d = "verizon.net" -> "verizon dot net"
          [] d = "att.net" -> "A T T dot net"
          [] d = "me.com" -> "me dot com"
          [] d = "mac.com" -> "mac dot com"
          [] d = "protonmail.com" -> "protonmail dot com"
          [] d = "mail.com" -> "mail dot com"]

\* The spoken piece of one character; "" for a character that is skipped.
SpokenChar(c) ==
    IF c = "." THEN "dot"
    ELSE IF c = "-" THEN "dash"
    ELSE IF c = "_" THEN "underscore"
    ELSE IF c \in Digit THEN c
    ELSE IF c \in LowerLetter THEN ToUpperTable[c]
    ELSE IF c \in UpperLetter THEN c
    ELSE ""

RECURSIVE SpokenPieces(_)
SpokenPieces(text) ==
    IF text = "" THEN <<>>
    ELSE (IF SpokenChar(Char(text, 1)) = "" THEN <<>> ELSE <<SpokenChar(Char(text, 1))>>)
             \o SpokenPieces(SubSeq(text, 2, Len(text)))

spellPartSimple(text) == Join(SpokenPieces(text), " ")

\* The username spelled, and the domain said as a word when it is a common
\* one.
SpelledParts(username, domain) ==
    spellPartSimple(username) \o ", at, "
        \o (IF domain \in DOMAIN commonDomains THEN commonDomains[domain]
            ELSE spellPartSimple(domain))

SpelledAddress(clean) ==
    IF IndexOfAt(clean) = 0 THEN spellPartSimple(clean)
    ELSE SpelledParts(SubSeq(clean, 1, IndexOfAt(clean) - 1),
                      SubSeq(clean, IndexOfAt(clean) + 1, Len(clean)))

spellEmailForSpeech(email) ==
    IF email = NULL \/ email = "" THEN "your email"
    ELSE SpelledAddress(KeepChars(Trim(ToLowerCase(email)), EmailChars))

\* digits.split('').join('. ')
RECURSIVE DotJoin(_)
DotJoin(digits) ==
    IF Len(digits) <= 1 THEN digits
    ELSE Char(digits, 1) \o ". " \o DotJoin(SubSeq(digits, 2, Len(digits)))

\* The digits in groups, each digit followed by a period.
SpokenDigits(digits) ==
    IF Len(digits) = 0 THEN "your phone number"
    ELSE IF Len(digits) = 10
    THEN DotJoin(SubSeq(digits, 1, 3)) \o ". ... " \o DotJoin(SubSeq(digits, 4, 6)) \o ". ... "
             \o DotJoin(SubSeq(digits, 7, 10)) \o "."
    ELSE IF Len(digits) = 11 /\ Char(digits, 1) = "1"
    THEN "1. ... " \o DotJoin(SubSeq(digits, 2, 4)) \o ". ... "
             \o DotJoin(SubSeq(digits, 5, 7)) \o ". ... " \o DotJoin(SubSeq(digits, 8, 11)) \o "."
    ELSE DotJoin(digits) \o "."

formatPhoneForSpeech(phone) ==
    IF phone = NULL \/ phone = "" THEN "your phone number" ELSE SpokenDigits(DigitsOf(phone))

(***************************************************************************)
(* The conversation record and the texts the handler speaks.               *)
(***************************************************************************)
\* The record conversationMemory[callSid] is created with.  The transcript
\* (memory.history) is kept apart from the record, in the variable history:
\* the handler only adds to it, cuts it, and hands it to the language model
\* and to the message summary.
NewRecord ==
    [intent |-> NULL,
     flow_state |-> "greeting",
     slot_offer_attempt |-> 0,
     offered_slots |-> <<>>,
     user_preferred_time |-> NULL,
     selected_slot |-> NULL,
     selected_slot_iso |-> NULL,
     first_name |-> NULL,
     last_name |-> NULL,
     email |-> NULL,
     phone |-> NULL,
     previous_client |-> NULL,
     referral_source |-> NULL,
     call_reason |-> NULL,
     message_content |-> NULL,
     email_spelled |-> NULL,
     email_confirmation_stage |-> NULL,
     calendar_check_announced |-> FALSE,
     first_name_retry |-> 0,
     last_name_retry |-> 0,
     email_retry |-> 0,
     phone_retry |-> 0,
     greeting_done |-> FALSE,
     booking_completed |-> FALSE,
     message_sent |-> FALSE,
     conversation_ended |-> FALSE,
     last_spoken_state |-> NULL,
     empty_speech_count |-> 0]

\* The free-text answers (names, referral, reason, message, preferred time) are
\* written and cleared by the handler and read only into the texts it sends
\* out; the record keeps that such a field holds the caller's words.
CallerWords == "<words>"

Kept(text) == IF text = "" THEN "" ELSE CallerWords

\* value || fallback
OrElse(value, fallback) == IF value = NULL \/ value = "" THEN fallback ELSE value

TechnicalIssue == "Sorry, I'm having a technical issue. Please try again later. Goodbye."

Apology == "Sorry, there was a technical issue. Please try again later. Goodbye."

OfficeClosedText ==
    "No one is available right now. Our office hours are Tuesday to Thursday from 11:00 AM to 5:00 PM. Would you like to leave a message now or call back during business hours?"

OfficeHoursText ==
    "Our office hours are Tuesday to Thursday from 11:00 AM to 5:00 PM. Would you like to leave a message or call back during business hours?"

NoSlotsText ==
    "I don't have any available slots right now. Would you like to leave a message so someone can call you back during business hours?"

GoodbyeText == "Thank you for calling Ahad and Co. We're here to help. Goodbye."

SpellEmailPrompt == "And your email address? Please spell it out for me, letter by letter, slowly."

OfferText(offered_slots) ==
    "I found the earliest available slot on " \o offered_slots[1].displayText
        \o ". Is that suitable for you?"

hardcodedStates ==
    [greeting |-> "Thanks for calling Ahad and Co CPA Firm. How can I help you today?",
     message_first_name |-> "May I have your first name, please?",
     message_last_name |-> "And your last name?",
     message_phone |-> "What is the best phone number to reach you?",
     message_email |-> SpellEmailPrompt,
     message_content |-> "What is the reason for your call?",
     appointment_first_name |-> "May I have your first name, please?",
     appointment_last_name |-> "And your last name?",
     appointment_phone |-> "And your phone number?",
     appointment_email |-> SpellEmailPrompt,
     appointment_previous_client |-> "Are you a new client or a previous client with Ahad and Co?",
     appointment_referral |-> "How did you hear about us?",
     appointment_call_reason |-> "What is the reason for your call?",
     appointment_welcome_back |-> "Welcome back! What is the reason for your call?",
     calendar_check |-> "Let me look at our calendar.",
     inquiry_intent |-> OfficeClosedText,
     office_hours_message |-> OfficeClosedText,
     office_hours_question |-> OfficeHoursText,
     message_fallback_intro |-> NoSlotsText,
     callback_end |-> "No problem. Thank you for calling Ahad and Co. We're here to help. Goodbye.",
     office_hours_declined |-> GoodbyeText,
     end_call |-> GoodbyeText]

\* The summary read back at the two final confirmations.
ContactSummary(memory) ==
    "Let me confirm your information. ... Your name is " \o OrElse(memory.first_name, "")
        \o " " \o OrElse(memory.last_name, "")
        \o ". ... Phone number: " \o formatPhoneForSpeech(memory.phone)
        \o ". ... Email: " \o spellEmailForSpeech(memory.email) \o ". ... "

ReadBack(memory) ==
    "Let me read that back. " \o spellEmailForSpeech(memory.email_spelled) \o ". Is that correct?"

FirstNamePrompt(memory, first) ==
    IF memory.first_name_retry > 0 THEN "I just need your first name. What is your first name?"
    ELSE first

PhonePrompt(memory, first) ==
    IF memory.phone_retry > 0
    THEN "I need your 10-digit phone number. Please say each digit slowly."
    ELSE first

EmailPrompt(memory) ==
    IF memory.email_retry > 0
    THEN "I need your email address. Please spell it out slowly, letter by letter, including 'at' and 'dot'."
    ELSE SpellEmailPrompt

\* The states postTransitionResponses has a text for.
PostTransitionStates ==
    {"message_first_name", "message_last_name", "message_phone", "message_email",
     "message_email_confirm", "message_content", "message_confirm", "message_complete",
     "appointment_first_name", "appointment_last_name", "appointment_phone",
     "appointment_email", "appointment_email_confirm", "appointment_previous_client",
     "appointment_referral", "appointment_call_reason", "appointment_welcome_back",
     "appointment_confirm", "appointment_complete", "offer_slots",
     "message_fallback_intro", "inquiry_intent", "office_hours_message",
     "office_hours_question", "calendar_check", "ask_preferred_time",
     "intent_clarification"}

postTransitionResponses(memory) ==
    [state \in PostTransitionStates |->
        CASE state = "message_first_name" ->
                 FirstNamePrompt(memory, "May I have your first name, please?")
          [] state = "message_last_name" ->
                 "And your last name?"
          [] state = "message_phone" ->
                 PhonePrompt(memory, "What is the best phone number to reach you?")
          [] state = "message_email" ->
                 EmailPrompt(memory)
          [] state = "message_email_confirm" ->
                 ReadBack(memory)
          [] state = "message_content" ->
                 "What is the reason for your call?"
          [] state = "message_confirm" ->
                 ContactSummary(memory) \o "Is all of that correct?"
          [] state = "message_complete" ->
                 "Thank you. Your message has been received. Someone will call you back during business hours. Thank you for calling Ahad and Co. We're here to help. Goodbye."
          [] state = "appointment_first_name" ->
                 FirstNamePrompt(memory, "Great! Let me collect your information. May I have your first name, please?")
          [] state = "appointment_last_name" ->
                 "And your last name?"
          [] state = "appointment_phone" ->
                 PhonePrompt(memory, "And your phone number? Please speak slowly.")
          [] state = "appointment_email" ->
                 EmailPrompt(memory)
          [] state = "appointment_email_confirm" ->
                 ReadBack(memory)
          [] state = "appointment_previous_client" ->
                 "Are you a new client or a previous client with Ahad and Co?"
          [] state = "appointment_referral" ->
                 "How did you hear about us?"
          [] state = "appointment_call_reason" ->
                 "What is the reason for your call?"
          [] state = "appointment_welcome_back" ->
                 "Welcome back! What is the reason for your call?"
          [] state = "appointment_confirm" ->
                 ContactSummary(memory) \o "Your appointment is scheduled for "
                 \o OrElse(memory.selected_slot, "") \o ". ... Is all of that correct?"
          [] state = "appointment_complete" ->
                 "Your appointment is confirmed for " \o OrElse(memory.selected_slot, "")
                 \o ". A confirmation will be sent to your email and a text to your phone. Thank you for calling Ahad and Co. We're here to help. Goodbye."
          [] state = "offer_slots" ->
                 IF Len(memory.offered_slots) > 0 THEN OfferText(memory.offered_slots) ELSE NoSlotsText
          [] state = "message_fallback_intro" ->
                 NoSlotsText
          [] state = "inquiry_intent" ->
                 OfficeClosedText
          [] state = "office_hours_message" ->
                 OfficeClosedText
          [] state = "office_hours_question" ->
                 OfficeHoursText
          [] state = "calendar_check" ->
                 "Let me look at our calendar."
          [] state = "ask_preferred_time" ->
                 "What time would you prefer?"
          [] state = "intent_clarification" ->
                 "I'd be happy to help. Are you looking to schedule an appointment or leave a message?"]

(***************************************************************************)
(* The patterns the state machine tests the utterance with.                *)
(***************************************************************************)
\* userSpeech && userSpeech.trim()
Spoken(userSpeech) == Trim(userSpeech) # ""

\* /appointment|book|schedule|meeting|consultation/i
WantsAppointment(lowerSpeech) ==
    ContainsAny(lowerSpeech, {"appointment", "book", "schedule", "meeting", "consultation"})

\* /yes|yeah|sure|ok|okay|alright|message|please/i
AgreesToMessage(lowerSpeech) ==
    ContainsAny(lowerSpeech, {"yes", "yeah", "sure", "ok", "okay", "alright", "message", "please"})

\* /no|nope|not|call back|later|goodbye|bye|hang up/i
DeclinesMessage(lowerSpeech) ==
    ContainsAny(lowerSpeech, {"no", "nope", "not", "call back", "later", "goodbye", "bye", "hang up"})

\* /(speak|talk) (to|with)|someone|person/i
AsksForPerson(lowerSpeech) ==
    ContainsAny(lowerSpeech, {"speak to", "speak with", "talk to", "talk with", "someone", "person"})

\* /yes|yeah|sure|ok|message|please|callback|call back/i
AgreesAfterHours(lowerSpeech) ==
    ContainsAny(lowerSpeech, {"yes", "yeah", "sure", "ok", "message", "please", "callback",
                              "call back"})

\* /no|nope|not|later|goodbye|bye/i
DeclinesAfterHours(lowerSpeech) ==
    ContainsAny(lowerSpeech, {"no", "nope", "not", "later", "goodbye", "bye"})

\* /no|nope|not|call back|later|goodbye|bye/i
DeclinesFallback(lowerSpeech) ==
    ContainsAny(lowerSpeech, {"no", "nope", "not", "call back", "later", "goodbye", "bye"})

\* rejectionPattern
rejectionPattern(lower) ==
    ContainsAny(lower, {"no", "nope", "not", "don't", "none", "neither", "doesn't work",
                        "that won't work", "no thanks"})

\* timePreferencePattern; its last two alternatives are "at" and one or two
\* digits, and a colon and two digits.
timePreferencePattern(lower) ==
    \/ ContainsAny(lower, {"today", "tomorrow", "monday", "tuesday", "wednesday", "thursday",
                           "friday", "saturday", "sunday", "am", "pm", "morning", "afternoon",
                           "evening", "next week", "next month"})
    \/ \E i \in 1..Len(lower) : \E d \in Digit : OccursAt(lower, "at " \o d, i)
    \/ \E i \in 1..(Len(lower) - 2) :
          Char(lower, i) = ":" /\ Char(lower, i + 1) \in Digit /\ Char(lower, i + 2) \in Digit

\* /^no\b/
StartsWithWordNo(lowerSpeech) ==
    StartsWith(lowerSpeech, "no") /\ (Len(lowerSpeech) = 2 \/ ~IsWordChar(Char(lowerSpeech, 3)))

SaysWrong(lowerSpeech) ==
    ContainsAny(lowerSpeech, {"not correct", "nothing", "wrong", "incorrect", "not right",
                              "that's wrong"})

\* /^no\b|not correct|nothing|wrong|incorrect|not right|that's wrong/i
EmailDenied(lowerSpeech) == StartsWithWordNo(lowerSpeech) \/ SaysWrong(lowerSpeech)

\* /^yes|^yeah|^yep|^correct|^right|that's right|that is correct|that's correct/i
EmailConfirmed(lowerSpeech) ==
    \/ StartsWithAny(lowerSpeech, {"yes", "yeah", "yep", "correct", "right"})
    \/ ContainsAny(lowerSpeech, {"that's right", "that is correct", "that's correct"})

\* /^no|not correct|nothing|wrong|incorrect|not right|that's wrong/i
SummaryDenied(lowerSpeech) == StartsWith(lowerSpeech, "no") \/ SaysWrong(lowerSpeech)

\* /^yes|^yeah|^yep|^correct|^right|that's right|that is correct|that's correct|
\*  all good|sounds good|perfect|great|awesome|good|ok|okay|sure|absolutely|definitely/i
SummaryConfirmed(lowerSpeech) ==
    \/ EmailConfirmed(lowerSpeech)
    \/ ContainsAny(lowerSpeech, {"all good", "sounds good", "perfect", "great", "awesome", "good",
                                 "ok", "okay", "sure", "absolutely", "definitely"})

\* /\b(new|first time|never been|not a client|no)\b/i
SaysNewClient(lowerSpeech) ==
    ContainsWord(lowerSpeech, {"new", "first time", "never been", "not a client", "no"})

\* /\b(yes|yeah|returning|previous|been here|came before|existing)\b/i
SaysReturningClient(lowerSpeech) ==
    ContainsWord(lowerSpeech, {"yes", "yeah", "returning", "previous", "been here", "came before",
                               "existing"})

EmailProviders ==
    {"gmail", "yahoo", "hotmail", "outlook", "aol", "icloud", "msn", "live", "comcast",
     "verizon", "att", "mail", "proton"}

\* The tail of domainPattern from position i: white space, a period or "dot",
\* white space, and com, net or org.
\* The position after the period or the "dot" at j; 0 when there is neither.
AfterDot(s, j) == IF OccursAt(s, ".", j) THEN j + 1 ELSE IF OccursAt(s, "dot", j) THEN j + 3 ELSE 0

TldFrom(s, k) == k > 0 /\ \E tld \in {"com", "net", "org"} : OccursAt(s, tld, SkipSpaces(s, k))

DomainTailAt(s, i) == TldFrom(s, AfterDot(s, SkipSpaces(s, i)))

\* domainPattern
domainPattern(lowerSpeech) ==
    \E p \in EmailProviders : \E i \in 1..Len(lowerSpeech) :
        OccursAt(lowerSpeech, p, i) /\ DomainTailAt(lowerSpeech, i + Len(p))

\* /^[a-z\s@\.]+$/i.test(userSpeech.trim()) && userSpeech.trim().length > 1
LettersOnly(t) ==
    /\ Len(t) > 1
    /\ \A i \in 1..Len(t) : Char(t, i) \in LowerLetter \cup UpperLetter \cup {" ", "@", "."}

additionalLetters(userSpeech) == LettersOnly(Trim(userSpeech))

\* The domain the caller adds to a partial address.
WithAt(domain) == IF StartsWith(domain, "@") THEN domain ELSE "@" \o domain

SpokenDomain(lowerSpeech) ==
    WithAt(RemoveSpaces(ReplaceSpaced(ReplaceSpaced(lowerSpeech, "dot", ".", 1), "at", "@", 1)))

\* email_spelled.replace(/[^a-zA-Z0-9]/g, '').toLowerCase()
CleanedEmail(email_spelled) ==
    ToLowerCase(KeepChars(email_spelled, LowerLetter \cup UpperLetter \cup Digit))

LastTenOfAny(extracted) == SliceLast(extracted, 10)

\* The digits of a spoken phone number: the last ten of more than eleven, all
\* eleven behind a leading 1, the last ten of any other eleven.
LastTen(extracted) ==
    IF Len(extracted) > 11 THEN SliceLast(extracted, 10)
    ELSE IF Len(extracted) = 11 /\ Char(extracted, 1) = "1" THEN extracted
    ELSE IF Len(extracted) > 10 THEN SliceLast(extracted, 10)
    ELSE extracted

PhoneDigits(userSpeech) == LastTen(DigitsOf(userSpeech))

\* forbiddenWords
forbiddenWords(agentText) ==
    ContainsAny(ToLowerCase(agentText),
                {"malicious", "suspicious", "security", "fraud", "spam", "scam", "block",
                 "detected", "refuse", "cannot help", "can only assist with booking"})

(***************************************************************************)
(* The state machine: one handler per flow state.  Each takes the record   *)
(* and the utterance and gives the record the handler leaves.              *)
(***************************************************************************)
\* flow_state = 'calendar_check' with the flag that makes the next request
\* query the calendar.
ToCalendarCheck(memory) ==
    [memory EXCEPT !.flow_state = "calendar_check", !.calendar_check_announced = TRUE]

SwitchToAppointment(memory) == ToCalendarCheck([memory EXCEPT !.intent = "appointment"])

Decline(memory) ==
    [memory EXCEPT !.flow_state = "office_hours_declined", !.conversation_ended = TRUE]

\* The routing on memory.intent after intent detection.
RouteIntent(memory) ==
    IF memory.intent \in {"inquiry", "speak_to_person"}
    THEN [memory EXCEPT !.flow_state = "inquiry_intent"]
    ELSE IF memory.intent = "office_hours_question"
    THEN [memory EXCEPT !.flow_state = "office_hours_question"]
    ELSE IF memory.intent = "appointment" THEN ToCalendarCheck(memory)
    ELSE IF memory.intent = "message" THEN [memory EXCEPT !.flow_state = "message_first_name"]
    ELSE IF memory.intent = "callback"
    THEN [memory EXCEPT !.flow_state = "callback_end", !.conversation_ended = TRUE]
    ELSE [memory EXCEPT !.flow_state = "intent_clarification"]

RouteClarifiedAskingAgain(detected) == RouteIntent(detected)

\* An intent that is still unclear is taken as a wish to book.
RouteClarified(detected) ==
    IF detected.intent \in {"inquiry", "speak_to_person", "office_hours_question",
                            "appointment", "message", "callback"}
    THEN RouteIntent(detected)
    ELSE SwitchToAppointment(detected)

IntentClarificationHandler(memory, userSpeech) ==
    RouteClarified([memory EXCEPT !.intent = detectIntentByKeywords(userSpeech)])

OfficeHoursMessageHandler(memory, lowerSpeech) ==
    IF WantsAppointment(lowerSpeech) THEN SwitchToAppointment(memory)
    ELSE IF AgreesToMessage(lowerSpeech) THEN [memory EXCEPT !.flow_state = "message_first_name"]
    ELSE IF DeclinesMessage(lowerSpeech) THEN Decline(memory)
    ELSE IF AsksForPerson(lowerSpeech) THEN [memory EXCEPT !.flow_state = "office_hours_message"]
    ELSE [memory EXCEPT !.flow_state = "message_first_name"]

\* The inquiry handler as it would be if an agreement were taken, as in
\* offer_slots, for the wish to book.
InquiryIntentHandlerBooking(memory, lowerSpeech) ==
    IF WantsAppointment(lowerSpeech) \/ AgreesToMessage(lowerSpeech)
    THEN SwitchToAppointment(memory)
    ELSE IF DeclinesMessage(lowerSpeech) THEN Decline(memory)
    ELSE [memory EXCEPT !.flow_state = "message_first_name"]

InquiryIntentHandler(memory, lowerSpeech) ==
    IF WantsAppointment(lowerSpeech) THEN SwitchToAppointment(memory)
    ELSE IF AgreesToMessage(lowerSpeech) THEN [memory EXCEPT !.flow_state = "message_first_name"]
    ELSE IF DeclinesMessage(lowerSpeech) THEN Decline(memory)
    ELSE [memory EXCEPT !.flow_state = "message_first_name"]

OfficeHoursQuestionHandler(memory, lowerSpeech) ==
    IF WantsAppointment(lowerSpeech) THEN SwitchToAppointment(memory)
    ELSE IF AgreesAfterHours(lowerSpeech) THEN [memory EXCEPT !.flow_state = "message_first_name"]
    ELSE IF DeclinesAfterHours(lowerSpeech) THEN Decline(memory)
    ELSE [memory EXCEPT !.flow_state = "message_first_name"]

\* The explicit rejection of the offered slot.
MaxSlotOffers == 4

\* The step after a rejection as it would be with > for >= at line 989: the
\* fallback comes one rejection late.
AfterRejectionLate(counted) ==
    IF counted.slot_offer_attempt > MaxSlotOffers
    THEN [counted EXCEPT !.flow_state = "message_fallback_intro"]
    ELSE [counted EXCEPT !.flow_state = "ask_preferred_time"]

AfterRejection(counted) ==
    IF counted.slot_offer_attempt >= MaxSlotOffers
    THEN [counted EXCEPT !.flow_state = "message_fallback_intro"]
    ELSE [counted EXCEPT !.flow_state = "ask_preferred_time"]

SlotRejected(memory) == AfterRejection([memory EXCEPT !.slot_offer_attempt = @ + 1])

\* A time named in answer to the offer as it would be handled if the caller
\* were first asked for the time they prefer.
PreferredTimeCounted(memory, userSpeech) == SlotRejected(memory)

\* Lines 977-983 and 1007-1013: the caller's words are kept as the preferred
\* time and the calendar is checked again.
PreferredTimeGiven(memory, userSpeech) ==
    ToCalendarCheck([memory EXCEPT !.user_preferred_time = Kept(Trim(userSpeech))])

\* The answer to the offer as it would be if an unclear answer counted as a
\* rejection.
SlotAnsweredCountingUnclear(memory, userSpeech, acceptedSlot) ==
    IF acceptedSlot # NoSlot
    THEN [memory EXCEPT !.selected_slot = acceptedSlot.displayText,
                        !.selected_slot_iso = acceptedSlot.iso,
                        !.flow_state = "appointment_first_name"]
    ELSE IF timePreferencePattern(ToLowerCase(userSpeech))
    THEN PreferredTimeGiven(memory, userSpeech)
    ELSE SlotRejected(memory)

\* The answer to the offer: acceptance first, then a time the caller names,
\* then an explicit rejection; anything else keeps the offer.
SlotAnswered(memory, userSpeech, acceptedSlot) ==
    IF acceptedSlot # NoSlot
    THEN [memory EXCEPT !.selected_slot = acceptedSlot.displayText,
                        !.selected_slot_iso = acceptedSlot.iso,
                        !.flow_state = "appointment_first_name"]
    ELSE IF timePreferencePattern(ToLowerCase(userSpeech))
    THEN PreferredTimeGiven(memory, userSpeech)
    ELSE IF rejectionPattern(ToLowerCase(userSpeech)) THEN SlotRejected(memory)
    ELSE [memory EXCEPT !.flow_state = "offer_slots"]

OfferSlotsHandler(memory, userSpeech) ==
    SlotAnswered(memory, userSpeech, detectSlotAcceptance(userSpeech, memory.offered_slots))

\* The first name: an extracted name moves on to next, anything else counts a
\* retry and stays.
FirstNameHandler(memory, extracted, next) ==
    IF extracted # ""
    THEN [memory EXCEPT !.first_name = Kept(extracted), !.flow_state = next,
                        !.first_name_retry = 0]
    ELSE [memory EXCEPT !.first_name_retry = @ + 1]

\* The last name: the extracted name, else the caller's words as they are.
LastNameHandler(memory, extracted, userSpeech, next) ==
    [memory EXCEPT !.last_name = Kept(IF extracted # "" THEN extracted ELSE Trim(userSpeech)),
                   !.flow_state = next]

\* The phone number: seven digits or more move on, fewer count a retry.
PhoneHandler(memory, extracted, next) ==
    IF Len(extracted) >= 7
    THEN [memory EXCEPT !.phone = extracted, !.flow_state = next]
    ELSE [memory EXCEPT !.phone_retry = @ + 1]

\* extractEmail gives an address holding "@" or nothing, so the branch for a
\* partial address is the first one.
EmailHandler(memory, extracted, confirm) ==
    IF extracted # "" /\ Contains(extracted, "@")
    THEN [memory EXCEPT !.email_spelled = extracted, !.flow_state = confirm,
                        !.email_retry = 0]
    ELSE IF extracted # ""
    THEN [memory EXCEPT !.email_spelled = extracted, !.flow_state = confirm]
    ELSE [memory EXCEPT !.email_retry = @ + 1]

\* A whole address replaces the one read back; letters alone are added to it.
EmailCorrected(memory, userSpeech, corrected) ==
    IF corrected # "" /\ Contains(corrected, "@")
    THEN [memory EXCEPT !.email_spelled = corrected]
    ELSE IF additionalLetters(userSpeech) /\ corrected = ""
    THEN [memory EXCEPT !.email_spelled = OrElse(@, "") \o ToLowerCase(RemoveSpaces(userSpeech))]
    ELSE memory

\* What the caller adds to or changes in the address being read back.
EmailAmended(memory, userSpeech, lowerSpeech) ==
    IF domainPattern(lowerSpeech)
    THEN [memory EXCEPT !.email_spelled = CleanedEmail(@) \o SpokenDomain(lowerSpeech)]
    ELSE EmailCorrected(memory, userSpeech, extractEmail(userSpeech))

\* The answer to the read-back as it would be handled without line 1075: the
\* confirmed address stays in email_spelled only.
EmailConfirmHandlerKeepingSpelled(memory, userSpeech, lowerSpeech, collect, next) ==
    IF EmailDenied(lowerSpeech)
    THEN [memory EXCEPT !.email_spelled = NULL, !.email_retry = 0, !.flow_state = collect]
    ELSE IF EmailConfirmed(lowerSpeech)
    THEN [memory EXCEPT !.flow_state = next]
    ELSE EmailAmended(memory, userSpeech, lowerSpeech)

\* The answer to the read-back as it would be handled without lines 1069 and
\* 1345: a denied address stays as the one spelled so far.
EmailConfirmHandlerKeepingDenied(memory, userSpeech, lowerSpeech, collect, next) ==
    IF EmailDenied(lowerSpeech)
    THEN [memory EXCEPT !.email_retry = 0, !.flow_state = collect]
    ELSE IF EmailConfirmed(lowerSpeech)
    THEN [memory EXCEPT !.email = memory.email_spelled, !.flow_state = next]
    ELSE EmailAmended(memory, userSpeech, lowerSpeech)

\* The answer to the read-back under the other policy: what is not a denial
\* is taken for the confirmation.
EmailConfirmHandlerTakingAny(memory, userSpeech, lowerSpeech, collect, next) ==
    IF EmailDenied(lowerSpeech)
    THEN [memory EXCEPT !.email_spelled = NULL, !.email_retry = 0, !.flow_state = collect]
    ELSE [memory EXCEPT !.email = memory.email_spelled, !.flow_state = next]

EmailConfirmHandler(memory, userSpeech, lowerSpeech, collect, next) ==
    IF EmailDenied(lowerSpeech)
    THEN [memory EXCEPT !.email_spelled = NULL, !.email_retry = 0, !.flow_state = collect]
    ELSE IF EmailConfirmed(lowerSpeech)
    THEN [memory EXCEPT !.email = memory.email_spelled, !.flow_state = next]
    ELSE EmailAmended(memory, userSpeech, lowerSpeech)

PreviousClientHandler(memory, lowerSpeech) ==
    IF SaysNewClient(lowerSpeech)
    THEN [memory EXCEPT !.previous_client = "No", !.flow_state = "appointment_referral"]
    ELSE IF SaysReturningClient(lowerSpeech)
    THEN [memory EXCEPT !.previous_client = "Yes", !.flow_state = "appointment_welcome_back"]
    ELSE [memory EXCEPT !.previous_client = "No", !.flow_state = "appointment_referral"]

\* The negative answer to the summary as it would be handled if collection
\* started again at the email address.
RestartCollectionAtEmail(memory, first) ==
    [memory EXCEPT !.flow_state = IF first = "appointment_first_name"
                                  THEN "appointment_email" ELSE "message_email",
                   !.first_name = NULL, !.last_name = NULL,
                   !.phone = NULL, !.email = NULL, !.email_spelled = NULL]

\* The negative answer to the summary: the contact fields are cleared and
\* collection starts again at first.
RestartCollection(memory, first) ==
    [memory EXCEPT !.flow_state = first, !.first_name = NULL, !.last_name = NULL,
                   !.phone = NULL, !.email = NULL, !.email_spelled = NULL]

\* The summary's handler under the other policy: what is not a negative
\* answer is taken for a confirmation.
AppointmentConfirmAssumingYes(memory, lowerSpeech) ==
    IF SummaryDenied(lowerSpeech) THEN RestartCollection(memory, "appointment_first_name")
    ELSE [memory EXCEPT !.flow_state = "appointment_complete"]

AppointmentConfirmHandler(memory, lowerSpeech) ==
    IF SummaryDenied(lowerSpeech) THEN RestartCollection(memory, "appointment_first_name")
    ELSE IF SummaryConfirmed(lowerSpeech) THEN [memory EXCEPT !.flow_state = "appointment_complete"]
    ELSE memory

MessageFallbackIntroHandler(memory, lowerSpeech) ==
    IF AgreesToMessage(lowerSpeech) THEN [memory EXCEPT !.flow_state = "message_first_name"]
    ELSE IF DeclinesFallback(lowerSpeech) THEN Decline(memory)
    ELSE [memory EXCEPT !.flow_state = "message_first_name"]

MessageContentHandler(memory, extracted) ==
    IF Len(extracted) > 2
    THEN [memory EXCEPT !.message_content = Kept(extracted), !.flow_state = "message_confirm"]
    ELSE memory

MessageConfirmHandler(memory, lowerSpeech) ==
    IF WantsAppointment(lowerSpeech) THEN SwitchToAppointment(memory)
    ELSE IF SummaryDenied(lowerSpeech) THEN RestartCollection(memory, "message_first_name")
    ELSE IF SummaryConfirmed(lowerSpeech) THEN [memory EXCEPT !.flow_state = "message_complete"]
    ELSE memory

MessageCollectionStates ==
    {"message_first_name", "message_last_name", "message_phone", "message_email",
     "message_email_confirm", "message_content"}

\* The order with the phone number left out of the appointment branch.
CollectionOrderWithoutPhone ==
    [appointment_first_name |-> "appointment_last_name",
     appointment_last_name |-> "appointment_email",
     appointment_phone |-> "appointment_email",
     appointment_email |-> "appointment_email_confirm",
     appointment_email_confirm |-> "appointment_previous_client",
     message_first_name |-> "message_last_name",
     message_last_name |-> "message_phone",
     message_phone |-> "message_email",
     message_email |-> "message_email_confirm",
     message_email_confirm |-> "message_content"]

\* The state each collection state moves on to.
CollectionOrder ==
    [appointment_first_name |-> "appointment_last_name",
     appointment_last_name |-> "appointment_phone",
     appointment_phone |-> "appointment_email",
     appointment_email |-> "appointment_email_confirm",
     appointment_email_confirm |-> "appointment_previous_client",
     message_first_name |-> "message_last_name",
     message_last_name |-> "message_phone",
     message_phone |-> "message_email",
     message_email |-> "message_email_confirm",
     message_email_confirm |-> "message_content"]

\* The state a denied address is spelled again in.
EmailStateOf ==
    [appointment_email_confirm |-> "appointment_email",
     message_email_confirm |-> "message_email"]

\* The else-if chain on memory.flow_state, for every state but greeting and
\* awaiting_intent; a state without a handler leaves the record as it is.  In
\* the message states before the summary a wish to book switches to the
\* calendar, and anything else is the answer to the state's question.
HandleState(memory, state, userSpeech, lowerSpeech) ==
    IF state = "intent_clarification" THEN IntentClarificationHandler(memory, userSpeech)
    ELSE IF state = "office_hours_message" THEN OfficeHoursMessageHandler(memory, lowerSpeech)
    ELSE IF state = "inquiry_intent" THEN InquiryIntentHandler(memory, lowerSpeech)
    ELSE IF state = "office_hours_question" THEN OfficeHoursQuestionHandler(memory, lowerSpeech)
    ELSE IF state = "offer_slots" THEN OfferSlotsHandler(memory, userSpeech)
    ELSE IF state = "ask_preferred_time" THEN PreferredTimeGiven(memory, userSpeech)
    ELSE IF state \in MessageCollectionStates /\ WantsAppointment(lowerSpeech)
    THEN SwitchToAppointment(memory)
    ELSE IF state \in {"appointment_first_name", "message_first_name"}
    THEN FirstNameHandler(memory, extractName(userSpeech), CollectionOrder[state])
    ELSE IF state \in {"appointment_last_name", "message_last_name"}
    THEN LastNameHandler(memory, extractName(userSpeech), userSpeech, CollectionOrder[state])
    ELSE IF state \in {"appointment_phone", "message_phone"}
    THEN PhoneHandler(memory, PhoneDigits(userSpeech), CollectionOrder[state])
    ELSE IF state \in {"appointment_email", "message_email"}
    THEN EmailHandler(memory, extractEmail(userSpeech), CollectionOrder[state])
    ELSE IF state \in {"appointment_email_confirm", "message_email_confirm"}
    THEN EmailConfirmHandler(memory, userSpeech, lowerSpeech, EmailStateOf[state],
                             CollectionOrder[state])
    ELSE IF state = "appointment_previous_client" THEN PreviousClientHandler(memory, lowerSpeech)
    ELSE IF state = "appointment_welcome_back"
    THEN [memory EXCEPT !.call_reason = Kept(Trim(userSpeech)),
                        !.flow_state = "appointment_confirm"]
    ELSE IF state = "appointment_referral"
    THEN [memory EXCEPT !.referral_source = Kept(Trim(userSpeech)),
                        !.flow_state = "appointment_call_reason"]
    ELSE IF state = "appointment_call_reason"
    THEN [memory EXCEPT !.call_reason = Kept(Trim(userSpeech)),
                        !.flow_state = "appointment_confirm"]
    ELSE IF state = "appointment_confirm" THEN AppointmentConfirmHandler(memory, lowerSpeech)
    ELSE IF state = "message_fallback_intro" THEN MessageFallbackIntroHandler(memory, lowerSpeech)
    ELSE IF state = "message_content" THEN MessageContentHandler(memory, Trim(userSpeech))
    ELSE IF state = "message_confirm" THEN MessageConfirmHandler(memory, lowerSpeech)
    ELSE memory

StateMachine(memory, userSpeech) ==
    HandleState(memory, memory.flow_state, userSpeech, ToLowerCase(userSpeech))

(***************************************************************************)
(* The program state.                                                      *)
(***************************************************************************)
VARIABLES
    conversationMemory,   \* callSid -> conversation record, for the calls that have one
    dispatched,           \* callSid -> the requests sent out for the call so far, and their answers
    inflight,             \* request id -> the request, for the requests suspended at an await
    exchange,             \* the request answered last and the response it got
    calComConfigured,     \* CALCOM_API_KEY and CALCOM_EVENT_TYPE_ID are both set
    callTracker,          \* phone number -> the requests counted for it by the security check
    queries,              \* the availability queries counted for the call whose rounds are followed
    history               \* callSid -> memory.history, for the calls whose transcript is followed

vars == <<conversationMemory, dispatched, inflight, exchange, calComConfigured, callTracker, queries,
          history>>

Calls == {"CA1"}

\* bookings, appointment_events and message_events count the requests sent;
\* bookings_made counts the bookings Cal.com answered with an id, the
\* calcom_booking_id of the appointment event; availability is the last answer
\* to the availability query.
NothingSent ==
    [bookings |-> 0, bookings_made |-> 0, appointment_events |-> 0, message_events |-> 0,
     availability |-> "none"]

NoExchange == [call |-> NULL, userSpeech |-> NULL, agentText |-> NULL, hangup |-> FALSE]

(***************************************************************************)
(* What the services outside the program can answer at each await.         *)
(***************************************************************************)
\* openai.chat.completions.create for the reply: a text, or an exception.
AIReplies ==
    {[throws |-> TRUE, content |-> ""],
     [throws |-> FALSE, content |-> "Of course."],
     [throws |-> FALSE, content |-> "I cannot help with that."]}

\* The intent classifier: an exception, or a label with a confidence, in
\* hundredths.
IntentLabels == {"appointment", "message", "speak_to_person", "unclear"}

Confidences == {60, 90}

IntentAnswers ==
    {[throws |-> TRUE, intent |-> NULL, confidence |-> 0]}
        \cup {[throws |-> FALSE, intent |-> i, confidence |-> c] :
                 i \in IntentLabels, c \in Confidences}

ConfidenceThreshold == 60

\* The points at which the handler awaits a service.
OutcomesAt(at) ==
    IF at = "start" THEN {NULL}
    ELSE IF at = "reply" THEN AIReplies
    ELSE IF at = "calendar" THEN CalendarAnswers
    ELSE IF at = "intent" THEN IntentAnswers
    ELSE IF at \in {"booking", "appointment_event", "message_event"} THEN BOOLEAN
    ELSE {}

(***************************************************************************)
(* The handler of POST /voice.  A run is the record of the call, what has  *)
(* been sent for the call, and the request with its local variables; each  *)
(* operator below takes the run from one await to the next.                *)
(***************************************************************************)
NewRequest(callSid, userSpeech) ==
    [call |-> callSid, userSpeech |-> userSpeech, agentText |-> TechnicalIssue,
     at |-> "start", hangup |-> FALSE, wrote |-> FALSE]

Suspend(run, at) == [run EXCEPT !.req.at = at]

Say(run, text) == [run EXCEPT !.req.agentText = text]

\* Lines 1603-1659: the guard against an empty response.
SilenceGuard(memory, agentText) ==
    IF Trim(agentText) # "" THEN agentText
    ELSE LET state == memory.flow_state
         IN  IF state = "awaiting_intent" THEN agentText
             ELSE IF memory.last_spoken_state = state
             THEN (IF memory.empty_speech_count >= 2 THEN "Are you still there?" ELSE "")
             ELSE IF state \in {"calendar_check", "offer_slots"} THEN "One moment please."
             ELSE IF state \in {"appointment_first_name", "message_first_name"}
             THEN "May I have your first name, please?"
             ELSE IF state \in {"appointment_last_name", "message_last_name"}
             THEN "And your last name?"
             ELSE IF state \in {"appointment_phone", "message_phone"}
             THEN "What is the best phone number to reach you?"
             ELSE IF state \in {"appointment_email", "message_email"}
             THEN "And your email address? Please spell it out slowly."
             ELSE IF state \in {"appointment_email_confirm", "message_email_confirm"}
             THEN "Is that email correct?"
             ELSE IF state \in {"message_content", "appointment_call_reason"}
             THEN "What is the reason for your call?"
             ELSE IF state \in {"message_confirm", "appointment_confirm"}
             THEN "Is that information correct?"
             ELSE IF state \in {"inquiry_intent", "office_hours_message", "office_hours_question",
                                "message_fallback_intro"}
             THEN "Would you like to leave a message?"
             ELSE IF state = "appointment_previous_client"
             THEN "Are you a new client or a previous client with Ahad and Co?"
             ELSE IF state = "appointment_referral" THEN "How did you hear about us?"
             ELSE "I didn't quite catch that. Could you please repeat?"

shouldEnd(memory) ==
    \/ memory.flow_state \in {"appointment_complete", "message_complete",
                              "office_hours_declined", "callback_end"}
    \/ memory.conversation_ended

\* The response as it would be without line 1777: the call is hung up but the
\* record is not flagged ended.
RespondWithoutEnding(run) ==
    [run EXCEPT !.req.agentText = SilenceGuard(run.memory, @),
                !.req.hangup = shouldEnd(run.memory),
                !.req.at = "done"]

\* Lines 1600-1788: the response is built and sent; a call that should end is
\* flagged ended and hung up.
Respond(run) ==
    [run EXCEPT !.memory.conversation_ended = @ \/ shouldEnd(run.memory),
                !.req.agentText = SilenceGuard(run.memory, @),
                !.req.hangup = shouldEnd(run.memory),
                !.req.at = "done"]

\* The message webhook as it would be if it fired at the end of any call
\* rather than in message_complete only.
MessageWebhookOnAnyEnd(run) ==
    IF shouldEnd(run.memory) /\ ~run.memory.message_sent
    THEN Suspend([run EXCEPT !.memory.message_sent = TRUE, !.sent.message_events = @ + 1],
                 "message_event")
    ELSE Respond(run)

\* Lines 1561-1598: the message webhook.
MessageWebhook(run) ==
    IF run.memory.flow_state = "message_complete" /\ ~run.memory.message_sent
    THEN Suspend([run EXCEPT !.memory.message_sent = TRUE, !.sent.message_events = @ + 1],
                 "message_event")
    ELSE Respond(run)

\* Lines 1531-1551: the appointment event is posted.
SendAppointment(run) == Suspend([run EXCEPT !.sent.appointment_events = @ + 1], "appointment_event")

\* The answer of createCalComBooking as it would be handled if the event were
\* posted for a booking made only.
BookedOrNothing(run, booking) ==
    IF booking
    THEN SendAppointment([run EXCEPT !.sent.bookings_made = @ + 1])
    ELSE MessageWebhook(run)

\* The answer of createCalComBooking as it would be handled if a failure
\* gave the one-shot flag back, for a later turn to try again.
BookedOrRetried(run, booking) ==
    IF booking
    THEN SendAppointment([run EXCEPT !.sent.bookings_made = @ + 1])
    ELSE MessageWebhook([run EXCEPT !.memory.booking_completed = FALSE])

\* Lines 1518-1551: createCalComBooking has answered, with the booking or with
\* null; the appointment event is posted with the id or without.
Booked(run, booking) ==
    SendAppointment([run EXCEPT !.sent.bookings_made = IF booking THEN @ + 1 ELSE @])

\* Lines 1516-1528: the booking is requested when a slot is selected and
\* Cal.com is configured.
RequestBooking(run) ==
    IF run.memory.selected_slot_iso # NULL /\ calComConfigured
    THEN Suspend([run EXCEPT !.sent.bookings = @ + 1], "booking")
    ELSE SendAppointment(run)

\* The appointment webhook as it would be without the booking_completed flag:
\* every request that finds the call in appointment_complete dispatches.
AppointmentWebhookUnflagged(run) ==
    IF run.memory.flow_state = "appointment_complete"
    THEN RequestBooking([run EXCEPT !.memory.booking_completed = TRUE])
    ELSE MessageWebhook(run)

\* Lines 1512-1558: the appointment webhook, once for a call.
AppointmentWebhook(run) ==
    IF run.memory.flow_state = "appointment_complete" /\ ~run.memory.booking_completed
    THEN RequestBooking([run EXCEPT !.memory.booking_completed = TRUE])
    ELSE MessageWebhook(run)

\* Lines 1506-1509: the catch of the turn's try block.
Catch(run) == AppointmentWebhook(Say(run, Apology))

MAX_HISTORY == 16

\* Lines 1490-1500: the response is added to the transcript, and the
\* transcript is cut to its last MAX_HISTORY entries.
AgentSaved(run) ==
    LET saved == IF Trim(run.req.agentText) # ""
                 THEN Append(run.history, [role |-> "assistant", content |-> run.req.agentText])
                 ELSE run.history
    IN  [run EXCEPT !.history = IF Len(saved) > MAX_HISTORY
                                THEN SubSeq(saved, Len(saved) - MAX_HISTORY + 1, Len(saved))
                                ELSE saved]

\* Lines 1432-1500: after a spoken turn the text of the state the call is now
\* in replaces the reply.
PostTransition(run) ==
    AppointmentWebhook(AgentSaved(
        IF Spoken(run.req.userSpeech) /\ run.memory.flow_state \in PostTransitionStates
        THEN [run EXCEPT !.req.agentText = postTransitionResponses(run.memory)[run.memory.flow_state],
                         !.memory.last_spoken_state = run.memory.flow_state,
                         !.memory.empty_speech_count = 0]
        ELSE run))

\* Lines 816-843: the routing on the detected intent.
Routed(run, intent) ==
    Suspend([run EXCEPT !.memory = RouteIntent([@ EXCEPT !.intent = intent])], "post_transition")

\* Lines 799-813: the caller's intent, from the classifier when it is confident
\* and from the keywords otherwise.
DetectedIntent(answer, userSpeech) ==
    IF ~answer.throws /\ answer.confidence > ConfidenceThreshold
    THEN answer.intent
    ELSE detectIntentByKeywords(userSpeech)

IntentDetected(run, answer) == Routed(run, DetectedIntent(answer, run.req.userSpeech))

\* The state machine as it would run without the test of line 764, on a
\* silent turn as on a spoken one.
RunStateMachineOnSilence(run) ==
    IF run.memory.flow_state \in {"greeting", "awaiting_intent"}
    THEN Suspend(run, "intent")
    ELSE Suspend([run EXCEPT !.memory = StateMachine(@, run.req.userSpeech)],
                 "post_transition")

\* Lines 763-1428: a spoken turn runs the state machine; from greeting and
\* awaiting_intent it first asks the classifier.
RunStateMachine(run) ==
    IF Spoken(run.req.userSpeech)
    THEN IF run.memory.flow_state \in {"greeting", "awaiting_intent"}
         THEN Suspend(run, "intent")
         ELSE Suspend([run EXCEPT !.memory = StateMachine(@, run.req.userSpeech)],
                      "post_transition")
    ELSE Suspend(run, "post_transition")

\* Lines 741-755: the state the calendar's answer leads to is spoken.
SlotsSpoken(run, memory) ==
    Suspend([run EXCEPT !.memory = [memory EXCEPT !.last_spoken_state = memory.flow_state,
                                                  !.empty_speech_count = 0],
                        !.req.agentText =
                            IF memory.flow_state = "offer_slots" /\ Len(memory.offered_slots) > 0
                            THEN OfferText(memory.offered_slots)
                            ELSE NoSlotsText],
            "state_machine")

\* The answer of the calendar as it would be handled if line 735 tested the
\* answer for null only: an empty list of slots is offered.
CalendarCheckedOfferingAny(run, slots) ==
    SlotsSpoken([run EXCEPT !.sent.availability = IF slots.isNull THEN "failed"
                                                  ELSE IF Len(slots.slots) = 0 THEN "empty"
                                                  ELSE "slots"],
                IF ~slots.isNull
                THEN [run.memory EXCEPT !.offered_slots = slots.slots,
                                        !.flow_state = "offer_slots",
                                        !.calendar_check_announced = FALSE]
                ELSE [run.memory EXCEPT !.flow_state = "message_fallback_intro",
                                        !.calendar_check_announced = FALSE])

\* Lines 735-755: the answer of the calendar; slots are offered, or the
\* caller is asked to leave a message.
CalendarChecked(run, slots) ==
    SlotsSpoken([run EXCEPT !.sent.availability = IF slots.isNull THEN "failed"
                                                  ELSE IF Len(slots.slots) = 0 THEN "empty"
                                                  ELSE "slots"],
                IF ~slots.isNull /\ Len(slots.slots) > 0
                THEN [run.memory EXCEPT !.offered_slots = slots.slots,
                                        !.flow_state = "offer_slots",
                                        !.calendar_check_announced = FALSE]
                ELSE [run.memory EXCEPT !.flow_state = "message_fallback_intro",
                                        !.calendar_check_announced = FALSE])

GreetedInPlace(run) ==
    IF run.memory.flow_state = "greeting" /\ ~run.memory.greeting_done
    THEN [run EXCEPT !.memory.greeting_done = TRUE]
    ELSE run

\* Lines 718-724: the greeting is marked done.
Greeted(run) ==
    IF run.memory.flow_state = "greeting" /\ ~run.memory.greeting_done
    THEN [run EXCEPT !.memory.greeting_done = TRUE, !.memory.flow_state = "awaiting_intent"]
    ELSE run

\* Lines 726-761: in calendar_check the calendar is queried once the check has
\* been announced.
CheckCalendar(run) ==
    IF run.memory.flow_state = "calendar_check"
    THEN IF run.memory.calendar_check_announced
         THEN IF calComConfigured THEN Suspend(run, "calendar")
              ELSE CalendarChecked(run, getCalendarAvailability(FALSE, <<>>))
         ELSE Suspend([run EXCEPT !.memory.calendar_check_announced = TRUE], "state_machine")
    ELSE Suspend(run, "state_machine")

\* Lines 712-715: the caller's words are added to the transcript.
UserSaved(run) ==
    IF run.req.userSpeech # ""
    THEN [run EXCEPT !.history = Append(@, [role |-> "user", content |-> run.req.userSpeech])]
    ELSE run

AfterReply(run) == CheckCalendar(Greeted(UserSaved(run)))

\* Lines 699-710: a reply with a forbidden word is replaced by the text of the
\* state.
Screened(run, agentText) ==
    AfterReply([run EXCEPT !.req.agentText =
                               IF forbiddenWords(agentText)
                               THEN (IF run.memory.flow_state \in DOMAIN hardcodedStates
                                     THEN hardcodedStates[run.memory.flow_state]
                                     ELSE "How can I help you today?")
                               ELSE agentText,
                           !.memory.last_spoken_state = run.memory.flow_state])

\* Lines 692-710: the reply of the language model.
Replied(run, completion) ==
    IF completion.throws THEN Catch(run) ELSE Screened(run, Trim(completion.content))

\* Lines 652-673: a silent turn in a state with a fixed question.
HardcodedPrompt(run) ==
    IF run.memory.last_spoken_state = run.memory.flow_state
    THEN [run EXCEPT !.memory.empty_speech_count = @ + 1,
                     !.req.agentText = IF run.memory.empty_speech_count + 1 >= 2
                                       THEN "Are you still there?"
                                       ELSE "I didn't catch that. Could you please repeat?"]
    ELSE [run EXCEPT !.req.agentText = hardcodedStates[run.memory.flow_state],
                     !.memory.last_spoken_state = run.memory.flow_state]

\* Lines 675-689: a silent turn in awaiting_intent.
SilentWait(run) ==
    IF run.memory.last_spoken_state = "awaiting_intent"
    THEN [run EXCEPT !.memory.empty_speech_count = @ + 1,
                     !.req.agentText = IF run.memory.empty_speech_count + 1 >= 2
                                       THEN "Are you still there? How can I help you today?"
                                       ELSE ""]
    ELSE [run EXCEPT !.req.agentText = "", !.memory.last_spoken_state = "awaiting_intent"]

\* Lines 604-608: speech resets the count of empty turns.
Heard(run) ==
    IF Spoken(run.req.userSpeech) THEN [run EXCEPT !.memory.empty_speech_count = 0] ELSE run

\* Lines 650-697: a silent turn is answered with a fixed text; for a spoken
\* one the reply is asked of the language model.
Prompted(run) ==
    IF /\ run.req.userSpeech = ""
       /\ run.memory.flow_state \in DOMAIN hardcodedStates \cup {"awaiting_intent"}
    THEN AfterReply(IF run.memory.flow_state \in DOMAIN hardcodedStates
                    THEN HardcodedPrompt(run)
                    ELSE SilentWait(run))
    ELSE Suspend(run, "reply")

\* Lines 598-697: the request is received.
Begin(run) == Prompted(Heard(run))

\* The handler goes on from where it is, with the answer it awaited.
Continue(run, answer) ==
    IF run.req.at = "start" THEN Begin(run)
    ELSE IF run.req.at = "reply" THEN Replied(run, answer)
    ELSE IF run.req.at = "calendar"
    THEN CalendarChecked(run, getCalendarAvailability(calComConfigured, answer))
    ELSE IF run.req.at = "intent" THEN IntentDetected(run, answer)
    ELSE IF run.req.at = "booking" THEN Booked(run, answer)
    ELSE IF run.req.at = "appointment_event" THEN MessageWebhook(run)
    ELSE Respond(run)

\* The state machine and the text of the new state follow without an await.
Transitioned(run) == IF run.req.at = "post_transition" THEN PostTransition(run) ELSE run

Advance(run) == Transitioned(IF run.req.at = "state_machine" THEN RunStateMachine(run) ELSE run)

\* Whether the request has by now changed the record of the call: memory is
\* the object every request of the call reads and writes.
Written(before, after) ==
    [after EXCEPT !.req.wrote = before.req.wrote \/ after.memory # before.memory]

\* One segment of the handler: from the arrival of the request, or from the
\* answer to an await, to the next await or to the response.
Resume(run, answer) == Written(run, Advance(Continue(run, answer)))

\* The record as it would be without the test of line 544: every request
\* starts the call anew.
RecordAnew(callSid) == NewRecord

\* Lines 544-598: the record of the call, created on its first request.
RecordOf(callSid) ==
    IF callSid \in DOMAIN conversationMemory THEN conversationMemory[callSid] ELSE NewRecord

Arrive(callSid, userSpeech) ==
    [memory |-> RecordOf(callSid), sent |-> dispatched[callSid],
     history |-> history[callSid], req |-> NewRequest(callSid, userSpeech)]

\* The runs a request can end in when no other request interleaves.
RECURSIVE Finals(_)
Finals(run) ==
    IF run.req.at = "done" THEN {run}
    ELSE UNION {Finals(next) : next \in {Resume(run, answer) : answer \in OutcomesAt(run.req.at)}}

(***************************************************************************)
(* The calls the model follows: what a caller can say, and the bounds on   *)
(* the counters the program lets grow without limit.                       *)
(***************************************************************************)
Vocabulary ==
    {"", "yes", "no", "book an appointment", "schedule", "leave a message", "can I speak to someone",
     "call back later", "office hours", "John", "5551234567", "john at gmail dot com",
     "tomorrow", "no tomorrow", "hmm"}

MaxRetry == 2

MaxEmptyTurns == 2

MaxCountedRejections == 5

MaxEmailLength == 22

WithinBounds(memory) ==
    /\ memory.first_name_retry <= MaxRetry
    /\ memory.phone_retry <= MaxRetry
    /\ memory.email_retry <= MaxRetry
    /\ memory.empty_speech_count <= MaxEmptyTurns
    /\ memory.slot_offer_attempt <= MaxCountedRejections
    /\ Len(memory.email_spelled) <= MaxEmailLength

\* conversationMemory with the record of the call written back.
Stored(callSid, memory) ==
    [c \in DOMAIN conversationMemory \cup {callSid} |->
        IF c = callSid THEN memory ELSE conversationMemory[c]]

Answered(req) ==
    [call |-> req.call, userSpeech |-> req.userSpeech, agentText |-> req.agentText,
     hangup |-> req.hangup]

Init ==
    /\ conversationMemory = [c \in {} |-> NewRecord]
    /\ dispatched = [c \in Calls |-> NothingSent]
    /\ inflight = <<>>
    /\ exchange = NoExchange
    /\ calComConfigured \in BOOLEAN
    /\ callTracker = <<>>
    /\ queries = 0
    /\ history = [c \in Calls |-> <<>>]

\* The catch of the turn's try block is the only place the apology is said.
Caught(run) == run.req.agentText = Apology

\* The outcomes of one request of a call handled from its arrival to its
\* response, with no other request of the call in between.
Outcomes(callSid, userSpeech) ==
    {run \in Finals(Arrive(callSid, userSpeech)) : WithinBounds(run.memory)}

\* The response is sent: the record, what was sent out and the response.
Settle(callSid, run) ==
    /\ conversationMemory' = Stored(callSid, run.memory)
    /\ dispatched' = [dispatched EXCEPT ![callSid] = run.sent]
    /\ exchange' = Answered(run.req)

Finish(callSid, run) ==
    /\ Settle(callSid, run)
    /\ UNCHANGED <<inflight, calComConfigured, callTracker, queries, history>>

\* A request handled with every await answered.
Turn(callSid, userSpeech) ==
    /\ DOMAIN inflight = {}
    /\ \E run \in Outcomes(callSid, userSpeech) : ~Caught(run) /\ Finish(callSid, run)

\* A request handled with the language model's reply failing.
FailedTurn(callSid, userSpeech) ==
    /\ DOMAIN inflight = {}
    /\ \E run \in Outcomes(callSid, userSpeech) : Caught(run) /\ Finish(callSid, run)

Next ==
    \E callSid \in Calls, userSpeech \in Vocabulary :
        \/ Turn(callSid, userSpeech)
        \/ FailedTurn(callSid, userSpeech)

Spec == Init /\ [][Next]_vars

(***************************************************************************)
(* Requests of a call that overlap.  The handler runs without interruption *)
(* from one await to the next; while a request is suspended at an await    *)
(* the others run on the same record of the call.                          *)
(***************************************************************************)
MaxInFlight == 2

\* The request has run to its next await, or to its response.
Moved(id, run) ==
    /\ WithinBounds(run.memory)
    /\ conversationMemory' = Stored(run.req.call, run.memory)
    /\ dispatched' = [dispatched EXCEPT ![run.req.call] = run.sent]
    /\ IF run.req.at = "done"
       THEN /\ inflight' = [i \in DOMAIN inflight \ {id} |-> inflight[i]]
            /\ exchange' = Answered(run.req)
       ELSE /\ inflight' = [i \in DOMAIN inflight \cup {id} |->
                               IF i = id THEN run.req ELSE inflight[i]]
            /\ UNCHANGED exchange
    /\ UNCHANGED <<calComConfigured, callTracker, queries>>

Proceed(id, run) == Moved(id, run) /\ UNCHANGED history

\* A request arrives and runs to its first await.
Deliver(callSid, userSpeech) ==
    /\ Cardinality(DOMAIN inflight) < MaxInFlight
    /\ LET id == Min((1..MaxInFlight) \ DOMAIN inflight)
       IN  \E run \in {Resume(Arrive(callSid, userSpeech), NULL)} : Proceed(id, run)

\* The await a request is suspended at is answered, and the request runs on.
Answer(id) ==
    /\ id \in DOMAIN inflight
    /\ LET req == inflight[id]
           resumed == [memory |-> conversationMemory[req.call], sent |-> dispatched[req.call],
                       history |-> history[req.call], req |-> req]
       IN  \E run \in {Resume(resumed, answer) : answer \in OutcomesAt(req.at)} :
               Proceed(id, run)

(***************************************************************************)
(* Callers.  A specification follows calls from their first request        *)
(* through the states a property is about: in those states the caller says *)
(* anything of the vocabulary, and on the way to them an answer that leads *)
(* on.                                                                     *)
(***************************************************************************)
\* What a caller answers in a flow state.
Says(lead, region, words, state) ==
    IF state \in region THEN words
    ELSE IF state \in DOMAIN lead THEN lead[state]
    ELSE {}

\* A request of such a caller, handled alone.
Guided(lead, region) ==
    \E callSid \in Calls :
        \E userSpeech \in Says(lead, region, Vocabulary, RecordOf(callSid).flow_state) :
            \/ Turn(callSid, userSpeech)
            \/ FailedTurn(callSid, userSpeech)

\* The answers that lead through every question of the two branches.
Answers ==
    [greeting |-> {""},
     awaiting_intent |-> {"book an appointment", "leave a message", "can I speak to someone",
                          "office hours", "call back later"},
     intent_clarification |-> {"leave a message"},
     calendar_check |-> {""},
     offer_slots |-> {"yes"},
     ask_preferred_time |-> {"tomorrow"},
     appointment_first_name |-> {"John"},
     appointment_last_name |-> {"John"},
     appointment_phone |-> {"5551234567"},
     appointment_email |-> {"john at gmail dot com"},
     appointment_email_confirm |-> {"yes"},
     appointment_previous_client |-> {"yes", "no"},
     appointment_welcome_back |-> {"tomorrow"},
     appointment_referral |-> {"tomorrow"},
     appointment_call_reason |-> {"tomorrow"},
     message_fallback_intro |-> {"yes"},
     message_first_name |-> {"John"},
     message_last_name |-> {"John"},
     message_phone |-> {"5551234567"},
     message_email |-> {"john at gmail dot com"},
     message_email_confirm |-> {"yes"},
     message_content |-> {"tomorrow"},
     inquiry_intent |-> {"yes"},
     office_hours_question |-> {"yes"},
     appointment_confirm |-> {"yes"},
     message_confirm |-> {"yes"}]

TerminalStates ==
    {"appointment_complete", "message_complete", "office_hours_declined", "callback_end"}

(***************************************************************************)
(* The end of a call: the states a call can end from, and the states it    *)
(* ends in.                                                                *)
(***************************************************************************)
EndingStates ==
    TerminalStates \cup
    {"appointment_confirm", "message_confirm", "inquiry_intent", "office_hours_message",
     "office_hours_question", "message_fallback_intro"}

NextEnd == Guided(Answers, EndingStates)

SpecEnd == Init /\ [][NextEnd]_vars

(***************************************************************************)
(* The confirming turn, delivered more than once: in the confirm states    *)
(* and the states after them the requests of the call overlap.             *)
(***************************************************************************)
ConfirmStates == {"appointment_confirm", "message_confirm"}

CompletingStates == ConfirmStates \cup {"appointment_complete", "message_complete"}

ConfirmWords == {"yes", "no", ""}

\* On the way to the summary the requests come one after the other.
Approach ==
    \E callSid \in Calls :
        \E userSpeech \in Says(Answers, CompletingStates, {}, RecordOf(callSid).flow_state) :
            Turn(callSid, userSpeech)

Redeliver ==
    \E callSid \in Calls :
        /\ RecordOf(callSid).flow_state \in CompletingStates
        /\ \E userSpeech \in ConfirmWords : Deliver(callSid, userSpeech)

NextDup ==
    \/ Approach
    \/ Redeliver
    \/ \E id \in 1..MaxInFlight : Answer(id)

SpecDup == Init /\ [][NextDup]_vars


(***************************************************************************)
(* The negotiation of a slot: the offer, the caller's preferred time, and  *)
(* the message-taking the rejections fall back to, from where a request to *)
(* book leads to the calendar again.                                       *)
(***************************************************************************)
SlotStates == {"offer_slots", "ask_preferred_time", "message_fallback_intro"}

\* The caller asks to book, and asks again when asked for a name to leave a
\* message under.
SlotAnswers ==
    [greeting |-> {""},
     awaiting_intent |-> {"book an appointment"},
     calendar_check |-> {""},
     message_first_name |-> {"schedule"}]

NextSlots == Guided(SlotAnswers, SlotStates)

SpecSlots == Init /\ [][NextSlots]_vars

(***************************************************************************)
(* C1.  The completing turn delivered more than once.                      *)
(***************************************************************************)
Dispatching == {"booking", "appointment_event", "message_event"}

\* C1: when the turn that completes a call (into appointment_complete or
\* message_complete) is delivered again, after the first delivery or while
\* the first is suspended in its dispatch, the call still sends at most one
\* booking-creation request and at most one notification event.
SingleDispatch ==
    \A callSid \in Calls :
        /\ dispatched[callSid].bookings <= 1
        /\ dispatched[callSid].appointment_events + dispatched[callSid].message_events <= 1

\* A second "yes" has been answered with the hang-up while the first is still
\* suspended in its dispatch.
RedeliveredWhileDispatching ==
    /\ exchange.userSpeech = "yes"
    /\ exchange.hangup
    /\ \E id \in DOMAIN inflight :
           inflight[id].userSpeech = "yes" /\ inflight[id].at \in Dispatching
    /\ \E callSid \in Calls :
           dispatched[callSid].appointment_events + dispatched[callSid].message_events = 1

(***************************************************************************)
(* C2, C3.  The end of a call.                                             *)
(***************************************************************************)
\* C2: a call produces at most one terminal outcome: booking_completed and
\* message_sent are never both true for a call, and neither is true in a call
\* that ended in office_hours_declined or callback_end.
OneOutcome ==
    \A callSid \in DOMAIN conversationMemory :
        /\ ~(conversationMemory[callSid].booking_completed
                /\ conversationMemory[callSid].message_sent)
        /\ conversationMemory[callSid].flow_state \in {"office_hours_declined", "callback_end"}
              => /\ ~conversationMemory[callSid].booking_completed
                 /\ ~conversationMemory[callSid].message_sent

\* A call with its booking made is asked, in a later turn, to take a message.
MessageAskedAfterBooking ==
    \E callSid \in DOMAIN conversationMemory :
        /\ conversationMemory[callSid].booking_completed
        /\ dispatched[callSid].appointment_events = 1
        /\ exchange.userSpeech = "leave a message"

\* C3: once flow_state is appointment_complete, message_complete,
\* office_hours_declined or callback_end, conversation_ended is true by the
\* end of that turn, and no later turn of the call, silent or spoken, changes
\* flow_state.
TerminalStatesAbsorb ==
    /\ [](\A callSid \in DOMAIN conversationMemory :
             conversationMemory[callSid].flow_state \in TerminalStates
                 => conversationMemory[callSid].conversation_ended)
    /\ [][\A callSid \in DOMAIN conversationMemory :
             conversationMemory[callSid].flow_state \in TerminalStates
                 => conversationMemory'[callSid].flow_state
                        = conversationMemory[callSid].flow_state]_vars

\* A call that ended in callback_end gets a later turn that asks to book.
BookingAskedAfterCallbackEnd ==
    \E callSid \in DOMAIN conversationMemory :
        /\ conversationMemory[callSid].flow_state = "callback_end"
        /\ conversationMemory[callSid].conversation_ended
        /\ exchange.userSpeech = "book an appointment"
        /\ exchange.hangup

(***************************************************************************)
(* C4.  The inquiry and office-hours branch.                               *)
(***************************************************************************)
InquiryStates == {"inquiry_intent", "office_hours_message", "office_hours_question"}

BookingStates ==
    {"calendar_check", "offer_slots", "ask_preferred_time", "appointment_first_name",
     "appointment_last_name", "appointment_phone", "appointment_email",
     "appointment_email_confirm", "appointment_previous_client", "appointment_welcome_back",
     "appointment_referral", "appointment_call_reason", "appointment_confirm",
     "appointment_complete"}

\* C4: from inquiry_intent, office_hours_message or office_hours_question no
\* utterance of the caller, a request to book included, moves the call to
\* calendar_check, offer_slots or an appointment state; the way there leads
\* back through awaiting_intent or intent_clarification.
NoBookingFromInquiry ==
    [][\A callSid \in DOMAIN conversationMemory :
           conversationMemory[callSid].flow_state \in InquiryStates
               => conversationMemory'[callSid].flow_state \notin BookingStates]_vars

(***************************************************************************)
(* C9.  The turn that throws.                                              *)
(***************************************************************************)
\* C9: when the processing of a turn throws, the caller hears the apology and
\* the call is ended in that turn: the response hangs up and the record is
\* flagged ended, so the apology is not said on a second turn.
ApologyEndsCall ==
    exchange.agentText = Apology
        => /\ exchange.hangup
           /\ conversationMemory[exchange.call].conversation_ended

(***************************************************************************)
(* C10.  The answer to the summary.                                        *)
(***************************************************************************)
CompleteAfter == [appointment_confirm |-> "appointment_complete",
                  message_confirm |-> "message_complete"]

\* The turn just answered was a spoken one that did not throw.
SpokenTurn == Spoken(exchange'.userSpeech) /\ exchange'.agentText # Apology

\* The summary is asked of the call in the response just sent.
SummaryAsked(callSid) ==
    exchange'.agentText
        = postTransitionResponses(conversationMemory'[callSid])[conversationMemory'[callSid].flow_state]

\* C10 as stated: from appointment_confirm (message_confirm) the call reaches
\* appointment_complete (message_complete) only on an affirmative utterance,
\* and an utterance neither affirmative nor negative leaves the state at the
\* confirm step with the summary asked again.
UnclearAnswerKeepsSummary ==
    [][\A callSid \in DOMAIN conversationMemory :
           conversationMemory[callSid].flow_state \in ConfirmStates /\ SpokenTurn
               => /\ conversationMemory'[callSid].flow_state
                         = CompleteAfter[conversationMemory[callSid].flow_state]
                     => SummaryConfirmed(ToLowerCase(exchange'.userSpeech))
                  /\ ~SummaryConfirmed(ToLowerCase(exchange'.userSpeech))
                        /\ ~SummaryDenied(ToLowerCase(exchange'.userSpeech))
                     => /\ conversationMemory'[callSid].flow_state
                               = conversationMemory[callSid].flow_state
                        /\ SummaryAsked(callSid)]_vars

\* The request to book that message_confirm alone listens for.
SwitchAsked(callSid) ==
    /\ conversationMemory[callSid].flow_state = "message_confirm"
    /\ WantsAppointment(ToLowerCase(exchange'.userSpeech))

\* C10, amended: from appointment_confirm (message_confirm) the call reaches
\* appointment_complete (message_complete) only on an affirmative utterance;
\* an utterance neither affirmative nor negative, and in message_confirm not a
\* request to book, leaves the state at the confirm step with the summary
\* asked again; the request to book moves message_confirm to calendar_check.
UnclearAnswerKeepsSummaryUnlessBooking ==
    [][\A callSid \in DOMAIN conversationMemory :
           conversationMemory[callSid].flow_state \in ConfirmStates /\ SpokenTurn
               => /\ conversationMemory'[callSid].flow_state
                         = CompleteAfter[conversationMemory[callSid].flow_state]
                     => SummaryConfirmed(ToLowerCase(exchange'.userSpeech))
                  /\ ~SummaryConfirmed(ToLowerCase(exchange'.userSpeech))
                        /\ ~SummaryDenied(ToLowerCase(exchange'.userSpeech))
                        /\ ~SwitchAsked(callSid)
                     => /\ conversationMemory'[callSid].flow_state
                               = conversationMemory[callSid].flow_state
                        /\ SummaryAsked(callSid)
                  /\ SwitchAsked(callSid)
                     => conversationMemory'[callSid].flow_state = "calendar_check"]_vars

\* An unclear answer has been given to the summary of an appointment, and the
\* call is still at the summary.
UnclearAnswerAtSummary ==
    \E callSid \in DOMAIN conversationMemory :
        /\ conversationMemory[callSid].flow_state = "appointment_confirm"
        /\ conversationMemory[callSid].last_spoken_state = "appointment_confirm"
        /\ exchange.userSpeech = "hmm"
        /\ exchange.agentText # Apology

(***************************************************************************)
(* C5, C6, C7.  The answer to an offered slot.                             *)
(***************************************************************************)
\* The utterance just answered takes none of the slots offered to the call.
NotAccepted(callSid) ==
    detectSlotAcceptance(exchange'.userSpeech, conversationMemory[callSid].offered_slots) = NoSlot

Rejects == rejectionPattern(ToLowerCase(exchange'.userSpeech))

NamesTime == timePreferencePattern(ToLowerCase(exchange'.userSpeech))

\* The rejection is counted once, and the count decides the next state.
RejectionCounted(callSid) ==
    /\ conversationMemory'[callSid].slot_offer_attempt
           = conversationMemory[callSid].slot_offer_attempt + 1
    /\ conversationMemory'[callSid].slot_offer_attempt < MaxSlotOffers
           => conversationMemory'[callSid].flow_state = "ask_preferred_time"
    /\ conversationMemory'[callSid].slot_offer_attempt = MaxSlotOffers
           => conversationMemory'[callSid].flow_state = "message_fallback_intro"

NoOfferAfterFourRejections ==
    \A callSid \in DOMAIN conversationMemory :
        /\ conversationMemory[callSid].slot_offer_attempt <= MaxSlotOffers
        /\ conversationMemory[callSid].slot_offer_attempt >= MaxSlotOffers
              => conversationMemory[callSid].flow_state # "offer_slots"

\* C7: in offer_slots an utterance that is neither an acceptance, an explicit
\* rejection nor a time expression leaves slot_offer_attempt unchanged, keeps
\* flow_state at offer_slots and offered_slots as they are, and the same slot
\* is offered again.
UnclearAnswerKeepsOffer ==
    [][\A callSid \in DOMAIN conversationMemory :
           /\ conversationMemory[callSid].flow_state = "offer_slots"
           /\ NotAccepted(callSid)
           /\ ~Rejects
           /\ ~NamesTime
           => /\ conversationMemory'[callSid].slot_offer_attempt
                     = conversationMemory[callSid].slot_offer_attempt
              /\ conversationMemory'[callSid].flow_state = "offer_slots"
              /\ conversationMemory'[callSid].offered_slots
                     = conversationMemory[callSid].offered_slots
              /\ SpokenTurn
                    => exchange'.agentText = OfferText(conversationMemory[callSid].offered_slots)]_vars

\* An unclear answer has been given to an offer after a rejection was counted,
\* and the slot is offered again.
UnclearAnswerToOffer ==
    \E callSid \in DOMAIN conversationMemory :
        /\ conversationMemory[callSid].flow_state = "offer_slots"
        /\ conversationMemory[callSid].slot_offer_attempt = 1
        /\ exchange.userSpeech = "hmm"
        /\ exchange.agentText = OfferText(conversationMemory[callSid].offered_slots)

(***************************************************************************)
(* The collection of the caller's details: the states that can ask again.  *)
(***************************************************************************)
RetryStates ==
    {"appointment_first_name", "appointment_phone", "appointment_email",
     "message_first_name", "message_phone", "message_email"}

\* The answers that lead to the asking states of the message branch and from
\* one of them to the next.
CollectAnswers ==
    [greeting |-> {""},
     awaiting_intent |-> {"leave a message"},
     message_last_name |-> {"John"}]

NextCollect == Guided(CollectAnswers, RetryStates)

SpecCollect == Init /\ [][NextCollect]_vars

(***************************************************************************)
(* C8.  Failed extractions.                                                *)
(***************************************************************************)
\* The number of failed attempts after which the next utterance is to be
\* taken as it is.
RetriesAllowed == 1

\* The retry counter of a state that asks again.
RetryOf(memory) ==
    IF memory.flow_state \in {"appointment_first_name", "message_first_name"}
    THEN memory.first_name_retry
    ELSE IF memory.flow_state \in {"appointment_phone", "message_phone"}
    THEN memory.phone_retry
    ELSE memory.email_retry

\* C8: in the states that collect the first name, the phone and the email, in
\* both branches, failed extractions do not hold the call: after a bounded
\* number of failed attempts in the state the next utterance is taken as the
\* field's value and the call advances to the next state.
RetriesExhaustedAdvance ==
    [][\A callSid \in DOMAIN conversationMemory :
           /\ conversationMemory[callSid].flow_state \in RetryStates
           /\ RetryOf(conversationMemory[callSid]) >= RetriesAllowed
           /\ SpokenTurn
           => conversationMemory'[callSid].flow_state
                  # conversationMemory[callSid].flow_state]_vars

(***************************************************************************)
(* C11.  The negative answer to the summary.                               *)
(***************************************************************************)
FirstNameOf == [appointment_confirm |-> "appointment_first_name",
                message_confirm |-> "message_first_name"]

\* The fields a branch collects besides the contact details.
BranchFieldsCleared(memory, confirm) ==
    IF confirm = "appointment_confirm"
    THEN /\ memory.previous_client = NULL
         /\ memory.referral_source = NULL
         /\ memory.call_reason = NULL
    ELSE memory.message_content = NULL

\* C11: an explicit negative at appointment_confirm (message_confirm) unsets
\* every field collected in the branch, the first name, the last name, the
\* phone and the email, and the prior-client flag, the referral source and
\* the call reason (the message body), and moves the call to the first-name
\* state of the branch.
NegativeClearsEveryField ==
    [][\A callSid \in DOMAIN conversationMemory :
           /\ conversationMemory[callSid].flow_state \in ConfirmStates
           /\ SpokenTurn
           /\ SummaryDenied(ToLowerCase(exchange'.userSpeech))
           /\ ~SwitchAsked(callSid)
           => /\ conversationMemory'[callSid].flow_state
                     = FirstNameOf[conversationMemory[callSid].flow_state]
              /\ conversationMemory'[callSid].first_name = NULL
              /\ conversationMemory'[callSid].last_name = NULL
              /\ conversationMemory'[callSid].phone = NULL
              /\ conversationMemory'[callSid].email = NULL
              /\ BranchFieldsCleared(conversationMemory'[callSid],
                                     conversationMemory[callSid].flow_state)]_vars

(***************************************************************************)
(* C12.  The booking that is not made.                                     *)
(***************************************************************************)
\* C12: when a call enters appointment_complete and the booking-creation call
\* fails, returns nothing or is not attempted, the notification event is still
\* sent exactly once, and the call ends with the confirmation said to the
\* caller.
EventSentWithoutBooking ==
    /\ [](\A callSid \in DOMAIN conversationMemory :
             /\ conversationMemory[callSid].flow_state = "appointment_complete"
             /\ dispatched[callSid].bookings_made = 0
             => /\ dispatched[callSid].appointment_events = 1
                /\ conversationMemory[callSid].conversation_ended)
    /\ [][\A callSid \in DOMAIN conversationMemory :
             /\ conversationMemory[callSid].flow_state = "appointment_confirm"
             /\ conversationMemory'[callSid].flow_state = "appointment_complete"
             => /\ exchange'.hangup
                /\ exchange'.agentText
                       = postTransitionResponses(conversationMemory'[callSid])["appointment_complete"]]_vars

\* A call has ended in appointment_complete with the booking asked of Cal.com
\* and not made, and the event sent.
CompletedWithoutBooking ==
    \E callSid \in DOMAIN conversationMemory :
        /\ conversationMemory[callSid].flow_state = "appointment_complete"
        /\ dispatched[callSid].bookings = 1
        /\ dispatched[callSid].bookings_made = 0
        /\ dispatched[callSid].appointment_events = 1
        /\ exchange.hangup

(***************************************************************************)
(* The check of the calendar: the request that follows "Let me look at our *)
(* calendar" carries whatever the caller said meanwhile.                   *)
(***************************************************************************)
CalendarStates == {"calendar_check"}

\* The caller asks to book, rejects what is offered and names a time.
CalendarAnswersLead ==
    [greeting |-> {""},
     awaiting_intent |-> {"book an appointment"},
     offer_slots |-> {"no"},
     ask_preferred_time |-> {"tomorrow"}]

NextCalendar == Guided(CalendarAnswersLead, CalendarStates)

SpecCalendar == Init /\ [][NextCalendar]_vars

(***************************************************************************)
(* C13.  The availability query that finds nothing.                        *)
(***************************************************************************)
\* The turn just answered made the availability query of the call.
QueryAnswered(callSid) ==
    /\ conversationMemory[callSid].flow_state = "calendar_check"
    /\ conversationMemory[callSid].calendar_check_announced
    /\ exchange'.agentText # Apology

NothingFound(callSid) == dispatched'[callSid].availability \in {"failed", "empty"}

\* C13: whenever the availability query of calendar_check fails or returns no
\* slots, the call moves to message_fallback_intro in that turn; it never
\* enters offer_slots with offered_slots empty and never remains in
\* calendar_check.
NothingFoundFallsBack ==
    /\ [](\A callSid \in DOMAIN conversationMemory :
             conversationMemory[callSid].flow_state = "offer_slots"
                 => Len(conversationMemory[callSid].offered_slots) > 0)
    /\ [][\A callSid \in DOMAIN conversationMemory :
             QueryAnswered(callSid) /\ NothingFound(callSid)
                 => conversationMemory'[callSid].flow_state = "message_fallback_intro"]_vars

(***************************************************************************)
(* Two calls by the script: the caller who books, and the caller who       *)
(* leaves a message when the calendar has nothing.  Every service answers; *)
(* between two utterances the caller may stay silent.                      *)
(***************************************************************************)
ScriptAnswers ==
    [greeting |-> {"", "book an appointment"},
     awaiting_intent |-> {"", "book an appointment"},
     calendar_check |-> {"", "yes"},
     offer_slots |-> {"", "yes"},
     appointment_first_name |-> {"", "John"},
     appointment_last_name |-> {"", "Smith"},
     appointment_phone |-> {"", "5551234567"},
     appointment_email |-> {"", "john at gmail dot com"},
     appointment_email_confirm |-> {"", "yes"},
     appointment_previous_client |-> {"", "no"},
     appointment_referral |-> {"", "friend"},
     appointment_call_reason |-> {"", "tax help"},
     appointment_confirm |-> {"", "yes"},
     message_fallback_intro |-> {"", "yes"},
     message_first_name |-> {"", "John", "Mary"},
     message_last_name |-> {"", "Smith", "Jones"},
     message_phone |-> {"", "5551234567"},
     message_email |-> {"", "john at gmail dot com"},
     message_email_confirm |-> {"", "yes"},
     message_content |-> {"", "tax help", "please call me"},
     message_confirm |-> {"", "yes"}]

\* The language model replied, the classifier or the keywords gave the
\* caller's intent, the calendar answered, and the booking asked for was made.
ServicesSucceeded(run) ==
    /\ ~Caught(run)
    /\ run.memory.intent \in {NULL, "appointment"}
    /\ run.sent.availability # "failed"
    /\ run.sent.bookings_made = run.sent.bookings

Scripted ==
    \E callSid \in Calls :
        \E userSpeech \in Says(ScriptAnswers, {}, {}, RecordOf(callSid).flow_state) :
            /\ DOMAIN inflight = {}
            /\ \E run \in Outcomes(callSid, userSpeech) :
                   ServicesSucceeded(run) /\ Finish(callSid, run)

SpecScript == Init /\ [][Scripted]_vars

(***************************************************************************)
(* C14.  The booking by the script.                                        *)
(***************************************************************************)
AppointmentPath ==
    {"offer_slots", "appointment_first_name", "appointment_last_name", "appointment_phone",
     "appointment_email", "appointment_email_confirm", "appointment_previous_client",
     "appointment_referral", "appointment_call_reason", "appointment_confirm",
     "appointment_complete"}

AppointmentFieldsSet(memory) ==
    /\ memory.first_name # NULL
    /\ memory.last_name # NULL
    /\ memory.phone = "5551234567"
    /\ memory.email = "john@gmail.com"
    /\ memory.previous_client = "No"
    /\ memory.referral_source # NULL
    /\ memory.call_reason # NULL

\* C14: with the calendar answering with a slot and every service succeeding,
\* the utterances book an appointment, yes, John, Smith, 5551234567, john at
\* gmail dot com, yes, no, friend, tax help, yes take the call through the
\* states of the appointment branch to appointment_complete, with the first
\* name, the last name, the phone, the email, the prior-client flag, the
\* referral source and the call reason set, one booking-creation call and
\* one notification event.
ScriptedBookingCompletes ==
    \A callSid \in DOMAIN conversationMemory :
        dispatched[callSid].availability = "slots"
            => /\ conversationMemory[callSid].flow_state \in AppointmentPath
               /\ conversationMemory[callSid].flow_state = "appointment_complete"
                     => /\ AppointmentFieldsSet(conversationMemory[callSid])
                        /\ dispatched[callSid].bookings = 1
                        /\ dispatched[callSid].appointment_events = 1
                        /\ dispatched[callSid].message_events = 0

\* The last "yes" of the script has been answered with the hang-up, the call
\* in appointment_complete.
ScriptedBookingDone ==
    \E callSid \in DOMAIN conversationMemory :
        /\ conversationMemory[callSid].flow_state = "appointment_complete"
        /\ AppointmentFieldsSet(conversationMemory[callSid])
        /\ dispatched[callSid].bookings_made = 1
        /\ exchange.userSpeech = "yes"
        /\ exchange.hangup

(***************************************************************************)
(* C15.  The message by the script.                                        *)
(***************************************************************************)
MessagePath ==
    {"message_fallback_intro", "message_first_name", "message_last_name", "message_phone",
     "message_email", "message_email_confirm", "message_content", "message_confirm",
     "message_complete"}

\* C15: when the first availability query of a call returns nothing, the call
\* reaches message_fallback_intro, and with the caller answering yes, giving
\* each field of the message and confirming, it ends in message_complete with
\* one message notification, flow_state never having been offer_slots.
ScriptedMessageCompletes ==
    \A callSid \in DOMAIN conversationMemory :
        /\ Len(conversationMemory[callSid].offered_slots) = 0
              => conversationMemory[callSid].flow_state # "offer_slots"
        /\ dispatched[callSid].availability = "empty"
              => /\ Len(conversationMemory[callSid].offered_slots) = 0
                 /\ conversationMemory[callSid].flow_state \in MessagePath
                 /\ conversationMemory[callSid].flow_state = "message_complete"
                       => /\ dispatched[callSid].message_events = 1
                          /\ dispatched[callSid].bookings = 0
                          /\ dispatched[callSid].appointment_events = 0

\* The call has ended in message_complete, the calendar having had nothing.
ScriptedMessageDone ==
    \E callSid \in DOMAIN conversationMemory :
        /\ conversationMemory[callSid].flow_state = "message_complete"
        /\ dispatched[callSid].availability = "empty"
        /\ conversationMemory[callSid].message_content # NULL
        /\ dispatched[callSid].message_events = 1
        /\ exchange.userSpeech = "yes"
        /\ exchange.hangup

(***************************************************************************)
(* C16.  "yes" after the office-hours line.                                *)
(***************************************************************************)
\* C16: after "can I speak to someone" has put the call in inquiry_intent, a
\* "yes" moves the call to message_first_name, and not to calendar_check,
\* offer_slots or an appointment state.
YesAfterInquiryTakesMessage ==
    [][\A callSid \in DOMAIN conversationMemory :
           /\ conversationMemory[callSid].flow_state = "inquiry_intent"
           /\ SpokenTurn
           /\ exchange'.userSpeech = "yes"
           => conversationMemory'[callSid].flow_state = "message_first_name"]_vars

\* The call was routed as an inquiry and the "yes" that followed has been
\* answered with the question for the first name.
YesAnsweredAfterInquiry ==
    \E callSid \in DOMAIN conversationMemory :
        /\ conversationMemory[callSid].intent \in {"inquiry", "speak_to_person"}
        /\ conversationMemory[callSid].flow_state = "message_first_name"
        /\ conversationMemory[callSid].first_name_retry = 0
        /\ exchange.userSpeech = "yes"
        /\ exchange.agentText = "May I have your first name, please?"

(***************************************************************************)
(* The opening of a call with requests that overlap: the greeting, the     *)
(* caller's intent and the calendar check are the turns that suspend at    *)
(* the language model, at the intent detection and at the availability     *)
(* query.                                                                  *)
(***************************************************************************)
OpeningStates == {"greeting", "awaiting_intent", "calendar_check"}

OpeningWords == {"", "book an appointment", "leave a message"}

Open ==
    \E callSid \in Calls :
        /\ RecordOf(callSid).flow_state \in OpeningStates
        /\ \E userSpeech \in OpeningWords : Deliver(callSid, userSpeech)

NextOverlap ==
    \/ Open
    \/ \E id \in 1..MaxInFlight : Answer(id)

SpecOverlap == Init /\ [][NextOverlap]_vars

\* The awaits of a turn on services outside the program.
ExternalCalls == {"reply", "intent", "calendar"}

\* C17: while a request is suspended at the language model, at the intent
\* detection or at the availability query, it has written nothing yet to
\* the record that another request of the same call, in flight at the same
\* time, reads: the turn's update of the record is applied as a whole.
TurnUpdatesAtomic ==
    \A id \in DOMAIN inflight, other \in DOMAIN inflight :
        /\ id # other
        /\ inflight[other].call = inflight[id].call
        /\ inflight[id].at \in ExternalCalls
        => ~inflight[id].wrote

(***************************************************************************)
(* The security check of the server with call tracking: every request to   *)
(* POST /voice is counted under the caller's phone number before the       *)
(* record of the call is looked up, and a request that has no record yet   *)
(* is refused when the number is flagged.                                  *)
(***************************************************************************)
TrackedCalls == {"CA1", "CA2", "CA3"}

\* req.body.From of the requests of a call: two of the calls come from the
\* same number.
callerPhone(callSid) == IF callSid = "CA3" THEN "+15550002" ELSE "+15550001"

MaliciousGoodbye == "Sorry, possible malicious activity detected. Goodbye."

\* Minutes between the request and the number's last request.
MinutesSince == {0, 10, 11}

MaxTracked == 4

\* callTracker after checkMaliciousActivity(phoneNumber).
Tracked(phoneNumber, timeSinceLastCall) ==
    IF phoneNumber \notin DOMAIN callTracker
    THEN [p \in DOMAIN callTracker \cup {phoneNumber} |->
             IF p = phoneNumber THEN 1 ELSE callTracker[p]]
    ELSE [callTracker EXCEPT ![phoneNumber] =
             IF @ + 1 >= 3 /\ timeSinceLastCall < 10 THEN @ + 1
             ELSE IF timeSinceLastCall > 10 THEN 1
             ELSE @ + 1]

\* What checkMaliciousActivity(phoneNumber) returns.
checkMaliciousActivity(phoneNumber, timeSinceLastCall) ==
    /\ phoneNumber \in DOMAIN callTracker
    /\ callTracker[phoneNumber] + 1 >= 3
    /\ timeSinceLastCall < 10

\* A request to the server with the security check.  The alert that is
\* posted for a refused request changes nothing of the server, whether it
\* is delivered or not.
Screen(callSid, userSpeech, timeSinceLastCall) ==
    /\ DOMAIN inflight = {}
    /\ callerPhone(callSid) \in DOMAIN callTracker => callTracker[callerPhone(callSid)] < MaxTracked
    /\ callTracker' = Tracked(callerPhone(callSid), timeSinceLastCall)
    /\ UNCHANGED <<inflight, calComConfigured, queries, history>>
    /\ IF /\ checkMaliciousActivity(callerPhone(callSid), timeSinceLastCall)
          /\ callSid \notin DOMAIN conversationMemory
       THEN /\ exchange' = [call |-> callSid, userSpeech |-> userSpeech,
                            agentText |-> MaliciousGoodbye, hangup |-> TRUE]
            /\ UNCHANGED <<conversationMemory, dispatched>>
       ELSE \E run \in Outcomes(callSid, userSpeech) : Settle(callSid, run)

InitTracked ==
    /\ conversationMemory = [c \in {} |-> NewRecord]
    /\ dispatched = [c \in TrackedCalls |-> NothingSent]
    /\ inflight = <<>>
    /\ exchange = NoExchange
    /\ calComConfigured \in BOOLEAN
    /\ callTracker = <<>>
    /\ queries = 0
    /\ history = [c \in TrackedCalls |-> <<>>]

\* The callers open their calls and stay silent.
NextTracked ==
    \E callSid \in TrackedCalls, timeSinceLastCall \in MinutesSince :
        Screen(callSid, "", timeSinceLastCall)

SpecTracked == InitTracked /\ [][NextTracked]_vars

\* C18: the response to a request of a call is the response the call gets
\* when no other call exists.  The first request of a call handled alone
\* creates the record of the call, and a call that has a record is never
\* refused: so no request of any call is answered by the refusal.
CallsIndependent == exchange.agentText # MaliciousGoodbye

\* C19: the record of a call is removed from conversationMemory when the
\* call ends: once a request of the call has been answered with a hang-up,
\* conversationMemory holds no record under the call's CallSid.
RecordRemovedAtEnd ==
    exchange.hangup => exchange.call \notin DOMAIN conversationMemory

(***************************************************************************)
(* The phone number: a caller led to the question for the phone number of  *)
(* either branch, who answers it with numbers of every length the handler  *)
(* tells apart.                                                            *)
(***************************************************************************)
PhoneStates == {"appointment_phone", "message_phone"}

PhoneWords ==
    {"", "555123", "5551234", "555-123-4567", "my number is 5551234567",
     "15551234567", "25551234567", "125551234567", "1 555 123 4567 8",
     "5551234567 5551234567", "917-545-8915, that is 917-545-8915",
     "book 5551234567", "call 555"}

PhoneAnswers ==
    [greeting |-> {""},
     awaiting_intent |-> {"book an appointment", "leave a message"},
     calendar_check |-> {""},
     offer_slots |-> {"yes"},
     appointment_first_name |-> {"John"},
     appointment_last_name |-> {"John"},
     message_fallback_intro |-> {"yes"},
     message_first_name |-> {"John"},
     message_last_name |-> {"John"}]

PhoneCaller ==
    \E callSid \in Calls :
        \E userSpeech \in Says(PhoneAnswers, PhoneStates, PhoneWords, RecordOf(callSid).flow_state) :
            \/ Turn(callSid, userSpeech)
            \/ FailedTurn(callSid, userSpeech)

SpecPhone == Init /\ [][PhoneCaller]_vars

\* The number the statement gives for a string of digits.
StatedPhone(digits) ==
    IF Len(digits) > 11 \/ (Len(digits) = 11 /\ SubSeq(digits, 1, 1) # "1")
    THEN SubSeq(digits, Len(digits) - 9, Len(digits))
    ELSE digits

EmailStateAfter(state) ==
    IF state = "appointment_phone" THEN "appointment_email" ELSE "message_email"

\* The turn takes the number as stated: with seven digits or more the
\* number is stored and the email is asked for, with fewer the state and
\* the stored number stay.
PhoneTaken(before, after, digits) ==
    IF Len(StatedPhone(digits)) >= 7
    THEN /\ after.phone = StatedPhone(digits)
         /\ after.flow_state = EmailStateAfter(before.flow_state)
    ELSE /\ after.phone = before.phone
         /\ after.flow_state = before.flow_state

\* C20 as stated: every utterance answered in a phone state is taken as
\* the last 10 of its digits when they are more than 11 or are 11 without
\* a leading 1, else as all its digits, and the state advances exactly
\* when 7 digits or more remain.
PhoneCapturedAsStated ==
    [][\A callSid \in DOMAIN conversationMemory :
           /\ conversationMemory[callSid].flow_state \in PhoneStates
           /\ SpokenTurn
           => PhoneTaken(conversationMemory[callSid], conversationMemory'[callSid],
                         DigitsOf(exchange'.userSpeech))]_vars

\* C20 as the handlers have it: the same, for every utterance in
\* appointment_phone and for the utterances in message_phone that name no
\* appointment.
PhoneCapturedUnlessBooking ==
    [][\A callSid \in DOMAIN conversationMemory :
           /\ conversationMemory[callSid].flow_state \in PhoneStates
           /\ SpokenTurn
           /\ ~(/\ conversationMemory[callSid].flow_state = "message_phone"
                /\ WantsAppointment(ToLowerCase(exchange'.userSpeech)))
           => PhoneTaken(conversationMemory[callSid], conversationMemory'[callSid],
                         DigitsOf(exchange'.userSpeech))]_vars

\* The same ten digits said twice have been taken as those ten digits.
NumberSaidTwiceTaken ==
    \E callSid \in DOMAIN conversationMemory :
        /\ exchange.userSpeech = "917-545-8915, that is 917-545-8915"
        /\ conversationMemory[callSid].phone = "9175458915"
        /\ conversationMemory[callSid].flow_state \in {"appointment_email", "message_email"}

(***************************************************************************)
(* C21.  The two turns of a calendar check.                                *)
(***************************************************************************)
\* C21: every entry into calendar_check takes two turns.  A call in
\* calendar_check has the check announced and pending, to be made by its next
\* turn; and the turn that leaves the call in calendar_check, which is the
\* turn that entered it, has made no availability query itself.
CalendarCheckTakesTwoTurns ==
    /\ [](\A callSid \in DOMAIN conversationMemory :
             conversationMemory[callSid].flow_state = "calendar_check"
                 => conversationMemory[callSid].calendar_check_announced)
    /\ [][\A callSid \in DOMAIN conversationMemory :
             /\ conversationMemory'[callSid].flow_state = "calendar_check"
             /\ exchange'.agentText # Apology
             => ~QueryAnswered(callSid)]_vars

(***************************************************************************)
(* C22.  The utterance of the turn that finds the slot.                    *)
(***************************************************************************)
\* C22: the turn that makes the availability query and finds a slot leaves
\* the call in offer_slots with the slot proposed, and takes nothing from
\* its own utterance, which was given before the proposal: no slot is
\* selected, no rejection counted and no preferred time stored.
QueryTurnTakesNoAnswer ==
    [][\A callSid \in DOMAIN conversationMemory :
           /\ QueryAnswered(callSid)
           /\ dispatched'[callSid].availability = "slots"
           => /\ conversationMemory'[callSid].flow_state = "offer_slots"
              /\ conversationMemory'[callSid].selected_slot = conversationMemory[callSid].selected_slot
              /\ conversationMemory'[callSid].slot_offer_attempt =
                     conversationMemory[callSid].slot_offer_attempt
              /\ conversationMemory'[callSid].user_preferred_time =
                     conversationMemory[callSid].user_preferred_time]_vars

(***************************************************************************)
(* C23.  The greeting.                                                     *)
(***************************************************************************)
\* C23: the first request of a call, when it carries no utterance, is
\* answered with the greeting and leaves the call in awaiting_intent; and
\* once the greeting is done no request of the call is answered with the
\* greeting or leaves the call in the state greeting.
GreetingSaidOnce ==
    [][/\ \A callSid \in Calls :
              /\ callSid \notin DOMAIN conversationMemory
              /\ callSid \in DOMAIN conversationMemory'
              /\ exchange'.userSpeech = ""
              => /\ exchange'.agentText = hardcodedStates["greeting"]
                 /\ conversationMemory'[callSid].flow_state = "awaiting_intent"
       /\ \A callSid \in DOMAIN conversationMemory :
              conversationMemory[callSid].greeting_done
              => /\ exchange'.agentText # hardcodedStates["greeting"]
                 /\ conversationMemory'[callSid].flow_state # "greeting"]_vars

\* A call greeted on its silent first request has had a later request
\* answered.
AnsweredAfterGreeting ==
    \E callSid \in DOMAIN conversationMemory :
        /\ conversationMemory[callSid].greeting_done
        /\ conversationMemory[callSid].flow_state = "calendar_check"
        /\ exchange.userSpeech = "book an appointment"
        /\ exchange.agentText = hardcodedStates["calendar_check"]

(***************************************************************************)
(* C24.  The clarification of an unclear intent: a caller whose first      *)
(* words tell no intent, and who answers the clarifying question with      *)
(* anything.                                                               *)
(***************************************************************************)
ClarificationStates == {"intent_clarification"}

UnclearAnswers ==
    [greeting |-> {""}, awaiting_intent |-> {"", "hmm", "John", "tomorrow", "no"}]

NextClarify == Guided(UnclearAnswers, ClarificationStates)

SpecClarify == Init /\ [][NextClarify]_vars

\* C24: an utterance in awaiting_intent whose intent comes out unclear
\* leaves the call in intent_clarification; an utterance answered in
\* intent_clarification always leaves that state, for calendar_check with
\* the intent appointment when its keywords tell no intent either.
ClarificationAskedOnce ==
    [][\A callSid \in DOMAIN conversationMemory :
           /\ (/\ conversationMemory[callSid].flow_state = "awaiting_intent"
               /\ SpokenTurn
               /\ conversationMemory'[callSid].intent = "unclear"
               => conversationMemory'[callSid].flow_state = "intent_clarification")
           /\ (/\ conversationMemory[callSid].flow_state = "intent_clarification"
               /\ SpokenTurn
               => /\ conversationMemory'[callSid].flow_state # "intent_clarification"
                  /\ (detectIntentByKeywords(exchange'.userSpeech) = "unclear"
                      => /\ conversationMemory'[callSid].flow_state = "calendar_check"
                         /\ conversationMemory'[callSid].intent = "appointment"))]_vars

\* The clarifying question has been answered with words that tell no
\* intent, and the call has gone on to the calendar.
SecondUnclearBooks ==
    \E callSid \in DOMAIN conversationMemory :
        /\ exchange.userSpeech = "yes"
        /\ conversationMemory[callSid].flow_state = "calendar_check"
        /\ conversationMemory[callSid].calendar_check_announced
        /\ conversationMemory[callSid].intent = "appointment"

(***************************************************************************)
(* The collection of the caller's data: a caller led into either branch    *)
(* who answers every question of the branch with anything, up to the       *)
(* summary.                                                                *)
(***************************************************************************)
AppointmentCollection ==
    <<"appointment_first_name", "appointment_last_name", "appointment_phone",
      "appointment_email", "appointment_email_confirm", "appointment_previous_client",
      "appointment_referral", "appointment_call_reason", "appointment_confirm">>

MessageCollection ==
    <<"message_first_name", "message_last_name", "message_phone", "message_email",
      "message_email_confirm", "message_content", "message_confirm">>

AskingStates ==
    ({AppointmentCollection[i] : i \in DOMAIN AppointmentCollection}
        \cup {MessageCollection[i] : i \in DOMAIN MessageCollection}
        \cup {"appointment_welcome_back"}) \ ConfirmStates

OrderAnswers ==
    [greeting |-> {""},
     awaiting_intent |-> {"book an appointment", "leave a message"},
     calendar_check |-> {""},
     offer_slots |-> {"yes"},
     message_fallback_intro |-> {"yes"}]

OrderWords ==
    {"yes", "no", "John", "5551234567", "john at gmail dot com"}

NextOrder ==
    \E callSid \in Calls :
        \E userSpeech \in Says(OrderAnswers, AskingStates, OrderWords, RecordOf(callSid).flow_state) :
            \/ Turn(callSid, userSpeech)
            \/ FailedTurn(callSid, userSpeech)

SpecOrder == Init /\ [][NextOrder]_vars

(***************************************************************************)
(* C25.  The order of the questions.                                       *)
(***************************************************************************)
\* What the question of a state is answered into.
AnswerTo(memory, state) ==
    CASE state \in {"appointment_first_name", "message_first_name"} -> memory.first_name
      [] state \in {"appointment_last_name", "message_last_name"} -> memory.last_name
      [] state \in {"appointment_phone", "message_phone"} -> memory.phone
      [] state \in {"appointment_email", "message_email"} -> memory.email_spelled
      [] state \in {"appointment_email_confirm", "message_email_confirm"} -> memory.email
      [] state = "appointment_previous_client" -> memory.previous_client
      [] state = "appointment_referral" ->
             IF memory.previous_client = "Yes" THEN "skipped" ELSE memory.referral_source
      [] state = "appointment_call_reason" -> memory.call_reason
      [] state = "message_content" -> memory.message_content

\* The questions of the branch asked before the one of the state.
AskedBefore(order, state) ==
    {order[j] : j \in {i \in DOMAIN order : \E k \in DOMAIN order : i < k /\ order[k] = state}}

\* The returning client is asked the reason in appointment_welcome_back.
PlaceOf(state) == IF state = "appointment_welcome_back" THEN "appointment_call_reason" ELSE state

Follows(order, from, to) ==
    \E i \in DOMAIN order : i + 1 \in DOMAIN order /\ order[i] = from /\ order[i + 1] = to

\* One step of a branch: to the next question, past the referral for a
\* returning client, or back from the read-back to the spelling.
StepOfOrder(order, from, to) ==
    \/ to = order[1]
    \/ Follows(order, PlaceOf(from), PlaceOf(to))
    \/ from = "appointment_previous_client" /\ to = "appointment_welcome_back"
    \/ from \in DOMAIN EmailStateOf /\ to = EmailStateOf[from]

\* C25: in each branch the questions are asked in the fixed order: a call
\* in the state of a question holds an answer to every earlier question of
\* its branch (the referral excepted for a returning client), and a turn
\* that changes the state to a question of a branch takes one step of the
\* branch's order.
QuestionsInOrder ==
    /\ [](\A callSid \in DOMAIN conversationMemory :
             \A order \in {AppointmentCollection, MessageCollection} :
                 \A state \in AskedBefore(order, PlaceOf(conversationMemory[callSid].flow_state)) :
                     AnswerTo(conversationMemory[callSid], state) # NULL)
    /\ [][\A callSid \in DOMAIN conversationMemory :
             \A order \in {AppointmentCollection, MessageCollection} :
                 /\ conversationMemory'[callSid].flow_state # conversationMemory[callSid].flow_state
                 /\ \E i \in DOMAIN order :
                        order[i] = PlaceOf(conversationMemory'[callSid].flow_state)
                 => StepOfOrder(order, conversationMemory[callSid].flow_state,
                                conversationMemory'[callSid].flow_state)]_vars

\* Both branches have been gone through to the summary.
SummaryReachedInOrder ==
    \E callSid \in DOMAIN conversationMemory :
        /\ conversationMemory[callSid].flow_state \in ConfirmStates
        /\ conversationMemory[callSid].phone = "5551234567"
        /\ conversationMemory[callSid].email = "john@gmail.com"
        /\ conversationMemory[callSid].call_reason # NULL
               \/ conversationMemory[callSid].message_content # NULL

(***************************************************************************)
(* C26.  The referral of a returning client.                               *)
(***************************************************************************)
\* C26: an answer to the prior-client question recorded as yes leads to the
\* question for the reason without the referral being asked, and the call
\* holds no referral source; an answer recorded as no leads to the question
\* for the referral, and the reason is asked only after it.
ReferralSkippedForReturning ==
    [][\A callSid \in DOMAIN conversationMemory :
           /\ (/\ conversationMemory[callSid].flow_state = "appointment_previous_client"
               /\ SpokenTurn
               => IF conversationMemory'[callSid].previous_client = "Yes"
                  THEN /\ conversationMemory'[callSid].flow_state = "appointment_welcome_back"
                       /\ conversationMemory'[callSid].referral_source = NULL
                  ELSE /\ conversationMemory'[callSid].previous_client = "No"
                       /\ conversationMemory'[callSid].flow_state = "appointment_referral")
           /\ (/\ conversationMemory[callSid].flow_state = "appointment_welcome_back"
               /\ SpokenTurn
               => /\ conversationMemory'[callSid].flow_state = "appointment_confirm"
                  /\ conversationMemory'[callSid].referral_source = NULL)
           /\ (/\ conversationMemory'[callSid].flow_state = "appointment_call_reason"
               /\ conversationMemory[callSid].flow_state # "appointment_call_reason"
               => conversationMemory[callSid].flow_state = "appointment_referral")]_vars

(***************************************************************************)
(* C27.  The confirmation of the email address.                            *)
(***************************************************************************)
EmailConfirmStates == DOMAIN EmailStateOf

\* C27: the address spelled so far is read back by every answered turn that
\* leaves the call in an email-confirm state; the confirmed address is
\* set only by the answer "yes" in an email-confirm state, to the address
\* that was read back; and the state after email-confirm is entered only
\* by that answer.
EmailSetByAffirmativeOnly ==
    /\ [](\A callSid \in DOMAIN conversationMemory :
             /\ conversationMemory[callSid].flow_state \in EmailConfirmStates
             /\ Spoken(exchange.userSpeech)
             /\ exchange.agentText # Apology
             => exchange.agentText = ReadBack(conversationMemory[callSid]))
    /\ [][\A callSid \in DOMAIN conversationMemory :
             /\ (/\ conversationMemory'[callSid].email # conversationMemory[callSid].email
                 /\ conversationMemory'[callSid].email # NULL
                 => /\ conversationMemory[callSid].flow_state \in EmailConfirmStates
                    /\ exchange'.userSpeech = "yes"
                    /\ conversationMemory'[callSid].email = conversationMemory[callSid].email_spelled)
             /\ (/\ conversationMemory[callSid].flow_state \in EmailConfirmStates
                 /\ conversationMemory'[callSid].flow_state =
                        CollectionOrder[conversationMemory[callSid].flow_state]
                 => /\ exchange'.userSpeech = "yes"
                    /\ conversationMemory'[callSid].email = conversationMemory[callSid].email_spelled)
             /\ (/\ conversationMemory'[callSid].flow_state \in
                        {"appointment_previous_client", "message_content"}
                 /\ conversationMemory[callSid].flow_state # conversationMemory'[callSid].flow_state
                 => conversationMemory[callSid].flow_state \in EmailConfirmStates)]_vars

\* An address amended during the read-back has been confirmed.
AmendedEmailConfirmed ==
    \E callSid \in DOMAIN conversationMemory :
        /\ exchange.userSpeech = "yes"
        /\ conversationMemory[callSid].flow_state \in {"appointment_previous_client", "message_content"}
        /\ conversationMemory[callSid].email = "john@gmail.comjohn"

(***************************************************************************)
(* The read-back of the email address: a caller led through either branch  *)
(* to the read-back, who answers it with anything.                         *)
(***************************************************************************)
ReadBackWords ==
    {"", "yes", "no", "not correct", "that's wrong", "no, book an appointment",
     "John", "gmail dot com", "hmm"}

ReadBackAnswers ==
    [greeting |-> {""},
     awaiting_intent |-> {"book an appointment", "leave a message"},
     calendar_check |-> {""},
     offer_slots |-> {"yes"},
     message_fallback_intro |-> {"yes"},
     appointment_first_name |-> {"John"},
     appointment_last_name |-> {"John"},
     appointment_phone |-> {"5551234567"},
     appointment_email |-> {"john at gmail dot com"},
     message_first_name |-> {"John"},
     message_last_name |-> {"John"},
     message_phone |-> {"5551234567"},
     message_email |-> {"john at gmail dot com"}]

NextReadBack ==
    \E callSid \in Calls :
        \E userSpeech \in Says(ReadBackAnswers, EmailConfirmStates, ReadBackWords,
                               RecordOf(callSid).flow_state) :
            \/ Turn(callSid, userSpeech)
            \/ FailedTurn(callSid, userSpeech)

SpecReadBack == Init /\ [][NextReadBack]_vars

\* The denied address is dropped and spelled again, and nothing else of
\* what the caller has given changes.
EmailRestarted(before, after) ==
    /\ after.email_spelled = NULL
    /\ after.email_retry = 0
    /\ after.flow_state = EmailStateOf[before.flow_state]
    /\ after.first_name = before.first_name
    /\ after.last_name = before.last_name
    /\ after.phone = before.phone
    /\ after.email = before.email
    /\ after.previous_client = before.previous_client
    /\ after.referral_source = before.referral_source
    /\ after.call_reason = before.call_reason
    /\ after.message_content = before.message_content
    /\ after.selected_slot = before.selected_slot
    /\ after.selected_slot_iso = before.selected_slot_iso
    /\ after.intent = before.intent

\* C28 as stated: every explicit negative answered in an email-confirm
\* state drops the address spelled so far, sets the email retry counter to
\* zero and returns to the email state of the branch, every other
\* collected field staying as it is.
DeniedEmailRestarts ==
    [][\A callSid \in DOMAIN conversationMemory :
           /\ conversationMemory[callSid].flow_state \in EmailConfirmStates
           /\ SpokenTurn
           /\ EmailDenied(ToLowerCase(exchange'.userSpeech))
           => EmailRestarted(conversationMemory[callSid], conversationMemory'[callSid])]_vars

\* C28 as the handlers have it: the same, for every negative in
\* appointment_email_confirm and for the negatives in message_email_confirm
\* that name no appointment.
DeniedEmailRestartsUnlessBooking ==
    [][\A callSid \in DOMAIN conversationMemory :
           /\ conversationMemory[callSid].flow_state \in EmailConfirmStates
           /\ SpokenTurn
           /\ EmailDenied(ToLowerCase(exchange'.userSpeech))
           /\ ~(/\ conversationMemory[callSid].flow_state = "message_email_confirm"
                /\ WantsAppointment(ToLowerCase(exchange'.userSpeech)))
           => EmailRestarted(conversationMemory[callSid], conversationMemory'[callSid])]_vars

\* The read-back has been denied, and the address is asked for again.
EmailDeniedAtReadBack ==
    \E callSid \in DOMAIN conversationMemory :
        /\ exchange.userSpeech = "not correct"
        /\ conversationMemory[callSid].flow_state \in {"appointment_email", "message_email"}
        /\ conversationMemory[callSid].email_spelled = NULL
        /\ conversationMemory[callSid].phone = "5551234567"

(***************************************************************************)
(* C29.  A time named in answer to the offer.                              *)
(***************************************************************************)
\* C29: in offer_slots an utterance that takes no offered slot and names a
\* time is kept as the preferred time and the call goes to calendar_check
\* with the check announced, not to ask_preferred_time, and
\* slot_offer_attempt stays as it is.
NamedTimeRechecksCalendar ==
    [][\A callSid \in DOMAIN conversationMemory :
           /\ conversationMemory[callSid].flow_state = "offer_slots"
           /\ SpokenTurn
           /\ NotAccepted(callSid)
           /\ NamesTime
           => /\ conversationMemory'[callSid].flow_state = "calendar_check"
              /\ conversationMemory'[callSid].calendar_check_announced
              /\ conversationMemory'[callSid].user_preferred_time = Kept(exchange'.userSpeech)
              /\ conversationMemory'[callSid].slot_offer_attempt =
                     conversationMemory[callSid].slot_offer_attempt]_vars

\* The first offer of a call has been answered with a time.
TimeNamedAtFirstOffer ==
    \E callSid \in DOMAIN conversationMemory :
        /\ exchange.userSpeech = "no tomorrow"
        /\ conversationMemory[callSid].flow_state = "calendar_check"
        /\ conversationMemory[callSid].user_preferred_time # NULL
        /\ conversationMemory[callSid].slot_offer_attempt = 0
        /\ Len(conversationMemory[callSid].offered_slots) > 0

(***************************************************************************)
(* The rounds of the negotiation: a caller who takes no slot, and answers  *)
(* every offer and every question for a time with a rejection, a time or   *)
(* both, for as long as the call is in the negotiation.                    *)
(***************************************************************************)
RoundStates == {"offer_slots", "ask_preferred_time"}

RoundWords == {"no", "not that one", "tomorrow", "no tomorrow"}

RoundAnswers ==
    [greeting |-> {""},
     awaiting_intent |-> {"book an appointment"},
     calendar_check |-> {""}]

MaxQueries == 8

\* One turn of the call whose rounds are followed: the turn, and the count
\* of the availability queries (lines 726-735: the request that finds the
\* call in calendar_check with the check announced makes the query).
Round(callSid, userSpeech) ==
    /\ DOMAIN inflight = {}
    /\ queries < MaxQueries
    /\ \E run \in Outcomes(callSid, userSpeech) :
           /\ Settle(callSid, run)
           /\ queries' = IF /\ RecordOf(callSid).flow_state = "calendar_check"
                            /\ RecordOf(callSid).calendar_check_announced
                            /\ ~Caught(run)
                         THEN queries + 1 ELSE queries
    /\ UNCHANGED <<inflight, calComConfigured, callTracker, history>>

NextRounds ==
    \E callSid \in Calls :
        \E userSpeech \in Says(RoundAnswers, RoundStates, RoundWords, RecordOf(callSid).flow_state) :
            Round(callSid, userSpeech)

SpecRounds == Init /\ [][NextRounds]_vars

\* C30: the availability queries and slot offers of a call are bounded:
\* whatever the caller who takes no slot answers, no slot is offered any
\* more once MaxQueries availability queries were made for the call.
NegotiationEnds ==
    \A callSid \in DOMAIN conversationMemory :
        conversationMemory[callSid].flow_state = "offer_slots" => queries < MaxQueries

(***************************************************************************)
(* The intent of the caller: the classifier's answer and the keywords.     *)
(***************************************************************************)
\* The request id, suspended at the intent detection, runs on with the
\* classifier's answer.
IntentAnswered(id, answer) ==
    /\ id \in DOMAIN inflight
    /\ inflight[id].at = "intent"
    /\ Proceed(id, Resume([memory |-> conversationMemory[inflight[id].call],
                           sent |-> dispatched[inflight[id].call],
                           history |-> history[inflight[id].call],
                           req |-> inflight[id]], answer))

\* C31: the classifier's label is the intent that is routed on exactly when
\* the classifier answers with a confidence of at least 0.6; the label of
\* the keywords is routed on exactly when the confidence is below 0.6 or the
\* classifier fails.
ClassifierUsedFromThreshold ==
    [][\A id \in 1..MaxInFlight, answer \in IntentAnswers :
           IntentAnswered(id, answer)
           => conversationMemory'[inflight[id].call].intent =
                  IF ~answer.throws /\ answer.confidence >= ConfidenceThreshold
                  THEN answer.intent
                  ELSE detectIntentByKeywords(inflight[id].userSpeech)]_vars

(***************************************************************************)
(* The keywords: callers whose words belong to several of the groups of    *)
(* detectIntentByKeywords, one request at a time.                          *)
(***************************************************************************)
IntentStates == {"greeting", "awaiting_intent"}

KeywordWords ==
    {"", "hmm", "leave a message", "office hours",
     "can I speak to someone about an appointment",
     "what time can I book",
     "book it or I'll call back",
     "I'll call back with a message"}

Ask ==
    \E callSid \in Calls :
        /\ RecordOf(callSid).flow_state \in IntentStates
        /\ DOMAIN inflight = {}
        /\ \E userSpeech \in KeywordWords : Deliver(callSid, userSpeech)

NextKeywords ==
    \/ Ask
    \/ \E id \in 1..MaxInFlight : Answer(id)

SpecKeywords == Init /\ [][NextKeywords]_vars

\* The groups of patterns, the one that takes precedence first.
Precedence == <<"inquiry", "office_hours_question", "appointment", "callback", "message">>

GroupMatches(label, lower) ==
    CASE label = "inquiry" -> ContainsAny(lower, InquiryKeywords)
      [] label = "office_hours_question" -> IsOfficeHoursSpeech(lower)
      [] label = "appointment" -> IsAppointmentSpeech(lower)
      [] label = "callback" -> ContainsAny(lower, CallbackKeywords)
      [] label = "message" -> IsMessageSpeech(lower)

MatchingGroups(lower) == {k \in DOMAIN Precedence : GroupMatches(Precedence[k], lower)}

\* C32: the keywords give the label of the group of highest precedence among
\* the groups that match the utterance, and unclear only when none matches.
KeywordsByPrecedence ==
    [][\A id \in 1..MaxInFlight, answer \in IntentAnswers :
           /\ IntentAnswered(id, answer)
           /\ answer.throws \/ answer.confidence <= ConfidenceThreshold
           => LET lower == ToLowerCase(inflight[id].userSpeech)
              IN  conversationMemory'[inflight[id].call].intent =
                      IF MatchingGroups(lower) = {} THEN "unclear"
                      ELSE Precedence[Min(MatchingGroups(lower))]]_vars

\* An utterance of two groups, inquiry and appointment, was routed as an
\* inquiry.
InquiryBeforeAppointment ==
    \E callSid \in DOMAIN conversationMemory :
        /\ exchange.userSpeech = "can I speak to someone about an appointment"
        /\ conversationMemory[callSid].intent = "inquiry"
        /\ conversationMemory[callSid].flow_state = "inquiry_intent"

\* C33: in intent_clarification the utterance is classified as it is in
\* awaiting_intent, by the classifier first and by the keywords when the
\* classifier fails or is not confident: whatever the classifier answers to
\* the utterance, when the intent so detected is not unclear the call goes
\* where awaiting_intent routes that intent.
ClarificationClassifiedAsIntent ==
    [][\A callSid \in DOMAIN conversationMemory, answer \in IntentAnswers :
           /\ conversationMemory[callSid].flow_state = "intent_clarification"
           /\ SpokenTurn
           /\ DetectedIntent(answer, exchange'.userSpeech) # "unclear"
           => conversationMemory'[callSid].flow_state =
                  RouteIntent([conversationMemory[callSid] EXCEPT
                                   !.intent = DetectedIntent(answer, exchange'.userSpeech)]).flow_state]_vars

(***************************************************************************)
(* The answers to an offer: words of acceptance, ordinals and negatives.   *)
(***************************************************************************)
OfferStates == {"offer_slots"}

NegativeWords == {"no", "none", "nothing", "neither"}

OfferWords == NegativeWords \cup {"", "yes", "the second", "hmm"}

OfferAnswers ==
    [greeting |-> {""},
     awaiting_intent |-> {"book an appointment"},
     calendar_check |-> {""},
     ask_preferred_time |-> {"", "tomorrow"},
     appointment_first_name |-> {"", "John"}]

NextOffer ==
    \E callSid \in Calls :
        \E userSpeech \in Says(OfferAnswers, OfferStates, OfferWords, RecordOf(callSid).flow_state) :
            \/ Turn(callSid, userSpeech)
            \/ FailedTurn(callSid, userSpeech)

SpecOffer == Init /\ [][NextOffer]_vars

\* The ordinals, as words of their own.
OrdinalTokens == UNION {OrdinalWords[k] : k \in DOMAIN OrdinalWords}

\* C34: a slot is accepted only on an utterance that holds an ordinal or a
\* word of acceptance as a whole token, and never on an utterance that is a
\* negative word ("no", "none", "nothing", "neither") and nothing else.
AcceptedOnWholeTokenOnly ==
    [][\A callSid \in DOMAIN conversationMemory :
           /\ conversationMemory[callSid].flow_state = "offer_slots"
           /\ SpokenTurn
           /\ conversationMemory'[callSid].flow_state = "appointment_first_name"
           => /\ ContainsToken(Trim(ToLowerCase(exchange'.userSpeech)),
                               AcceptanceWords \cup OrdinalTokens)
              /\ exchange'.userSpeech \notin NegativeWords]_vars

\* C35: every availability query replaces offered_slots with its result:
\* after a query that fails or returns no slot, offered_slots holds no slot.
OfferedSlotsReplaced ==
    [][\A callSid \in DOMAIN conversationMemory :
           QueryAnswered(callSid) /\ NothingFound(callSid)
           => conversationMemory'[callSid].offered_slots = <<>>]_vars

(***************************************************************************)
(* The transcript of a call.  The caller, who may be slow to say what the  *)
(* call is for, names a time at every offer.  The call is followed until   *)
(* the transcript is full; the requests of a call that is then in          *)
(* calendar_check overlap, and are followed until they are answered.       *)
(***************************************************************************)
\* memory.history after the request has run.
Logged(run) == [history EXCEPT ![run.req.call] = run.history]

LoggedTurn(callSid, userSpeech) ==
    /\ DOMAIN inflight = {}
    /\ \E run \in Outcomes(callSid, userSpeech) :
           Settle(callSid, run) /\ history' = Logged(run)
    /\ UNCHANGED <<inflight, calComConfigured, callTracker, queries>>

LoggedDeliver(callSid, userSpeech) ==
    /\ Cardinality(DOMAIN inflight) < MaxInFlight
    /\ LET id == Min((1..MaxInFlight) \ DOMAIN inflight)
       IN  \E run \in {Resume(Arrive(callSid, userSpeech), NULL)} :
               Moved(id, run) /\ history' = Logged(run)

LoggedAnswer(id) ==
    /\ id \in DOMAIN inflight
    /\ LET req == inflight[id]
           resumed == [memory |-> conversationMemory[req.call], sent |-> dispatched[req.call],
                       history |-> history[req.call], req |-> req]
       IN  \E run \in {Resume(resumed, answer) : answer \in OutcomesAt(req.at)} :
               Moved(id, run) /\ history' = Logged(run)

TranscriptAnswers ==
    [greeting |-> {""},
     awaiting_intent |-> {"", "book an appointment"},
     calendar_check |-> {""},
     offer_slots |-> {"tomorrow"}]

OverlapWords == {"", "hello"}

\* The call is in calendar_check with a full transcript.
Overlapping(callSid) ==
    /\ RecordOf(callSid).flow_state = "calendar_check"
    /\ Len(history[callSid]) >= MAX_HISTORY

Converse ==
    \E callSid \in Calls :
        /\ Len(history[callSid]) < MAX_HISTORY
        /\ \E userSpeech \in Says(TranscriptAnswers, {}, {}, RecordOf(callSid).flow_state) :
               LoggedTurn(callSid, userSpeech)

Interrupt ==
    \E callSid \in Calls :
        /\ Overlapping(callSid)
        /\ \E userSpeech \in OverlapWords : LoggedDeliver(callSid, userSpeech)

NextTranscript ==
    \/ Converse
    \/ Interrupt
    \/ \E id \in 1..MaxInFlight : LoggedAnswer(id)

SpecTranscript == Init /\ [][NextTranscript]_vars

\* A request of the call gets its response in this step.
TurnAnswered(callSid) ==
    /\ exchange'.call = callSid
    /\ exchange' # exchange \/ DOMAIN inflight \ DOMAIN inflight' # {}

\* The entries of after that were not added last are the last entries of
\* before, in their order.
MostRecentKept(before, after) ==
    \E added \in 0..2 :
        /\ added <= Len(after)
        /\ Len(after) - added <= Len(before)
        /\ SubSeq(after, 1, Len(after) - added)
               = SubSeq(before, Len(before) - (Len(after) - added) + 1, Len(before))

\* C36: after every turn of a call the transcript holds at most 16 entries,
\* and they are the most recent ones in their order.
TranscriptBounded ==
    [][\A callSid \in Calls :
           TurnAnswered(callSid)
           => /\ Len(history'[callSid]) <= MAX_HISTORY
              /\ MostRecentKept(history[callSid], history'[callSid])]_vars

(***************************************************************************)
(* The dispatches that fail.                                               *)
(***************************************************************************)
\* The request id, suspended at a dispatch, runs on after the dispatch has
\* failed.
DispatchFailed(id) ==
    /\ id \in DOMAIN inflight
    /\ inflight[id].at \in Dispatching
    /\ Proceed(id, Resume([memory |-> conversationMemory[inflight[id].call],
                           sent |-> dispatched[inflight[id].call],
                           history |-> history[inflight[id].call],
                           req |-> inflight[id]], FALSE))

OneShotFlag(memory) ==
    IF memory.flow_state = "appointment_complete" THEN memory.booking_completed
    ELSE memory.message_sent

\* C37: a booking request or a notification that fails is swallowed: the
\* state stays the terminal one and the one-shot flag stays set, the turn is
\* answered with the closing response and the hang-up, and once the request
\* that dispatches is through, no turn dispatches again.
FailedDispatchSwallowed ==
    /\ [][\A id \in 1..MaxInFlight :
              DispatchFailed(id)
              => LET callSid == inflight[id].call
                     before == conversationMemory[callSid]
                     after == conversationMemory'[callSid]
                 IN  /\ before.flow_state \in {"appointment_complete", "message_complete"}
                     /\ after.flow_state = before.flow_state
                     /\ OneShotFlag(after)
                     /\ dispatched'[callSid].bookings = dispatched[callSid].bookings
                     /\ id \notin DOMAIN inflight'
                            => /\ exchange'.hangup
                               /\ exchange'.agentText
                                      = postTransitionResponses(after)[after.flow_state]
                               /\ after.conversation_ended]_vars
    /\ [][\A callSid \in DOMAIN conversationMemory :
              /\ conversationMemory[callSid].booking_completed
                     \/ conversationMemory[callSid].message_sent
              /\ \A id \in DOMAIN inflight : inflight[id].at \notin Dispatching
              => dispatched'[callSid] = dispatched[callSid]]_vars

\* The booking of a call failed, the call was closed, and a request that
\* came after has been answered with nothing more sent.
AnsweredAfterFailedBooking ==
    \E callSid \in DOMAIN conversationMemory :
        /\ conversationMemory[callSid].flow_state = "appointment_complete"
        /\ conversationMemory[callSid].booking_completed
        /\ dispatched[callSid].bookings = 1
        /\ dispatched[callSid].bookings_made = 0
        /\ dispatched[callSid].appointment_events = 1
        /\ inflight = <<>>
        /\ exchange.userSpeech = "no"
        /\ exchange.hangup

\* The field holds something.
IsSet(value) == value # NULL /\ value # ""

\* C38: in appointment_complete the selected slot, the names, the phone, the
\* confirmed email, the prior-client answer and the call reason are all
\* set, and in message_complete the names, the phone, the confirmed email
\* and the message are all set, on every path there.
CompleteWithAllFields ==
    \A callSid \in DOMAIN conversationMemory :
        LET memory == conversationMemory[callSid]
        IN  /\ memory.flow_state = "appointment_complete"
                => /\ IsSet(memory.selected_slot)
                   /\ IsSet(memory.first_name)
                   /\ IsSet(memory.last_name)
                   /\ IsSet(memory.phone)
                   /\ IsSet(memory.email)
                   /\ IsSet(memory.previous_client)
                   /\ IsSet(memory.call_reason)
            /\ memory.flow_state = "message_complete"
                => /\ IsSet(memory.first_name)
                   /\ IsSet(memory.last_name)
                   /\ IsSet(memory.phone)
                   /\ IsSet(memory.email)
                   /\ IsSet(memory.message_content)

\* A call that went through the message branch to its summary, switched to
\* the appointment branch there, denied the summary of the appointment once
\* and confirmed it the second time.
CompletedAfterSwitchAndRestart ==
    \E callSid \in DOMAIN conversationMemory :
        /\ conversationMemory[callSid].flow_state = "appointment_complete"
        /\ IsSet(conversationMemory[callSid].message_content)
        /\ conversationMemory[callSid].previous_client = "Yes"
        /\ IsSet(conversationMemory[callSid].referral_source)

\* What the caller has given, what was chosen and counted for the call.
CollectedFields ==
    {"first_name", "last_name", "phone", "email", "email_spelled", "previous_client",
     "referral_source", "call_reason", "message_content", "user_preferred_time",
     "selected_slot", "selected_slot_iso", "intent", "slot_offer_attempt",
     "first_name_retry", "last_name_retry", "phone_retry", "email_retry"}

\* C39: a turn with an empty utterance changes no collected field, no retry
\* counter, neither slot_offer_attempt, selected_slot nor intent, and changes
\* flow_state only from greeting to awaiting_intent, or from calendar_check
\* to offer_slots or message_fallback_intro.
SilentTurnKeepsFields ==
    [][\A callSid \in Calls :
           exchange'.call = callSid /\ exchange'.userSpeech = ""
           => LET before == RecordOf(callSid)
                  after == conversationMemory'[callSid]
              IN  /\ \A field \in CollectedFields : after[field] = before[field]
                  /\ \/ after.flow_state = before.flow_state
                     \/ before.flow_state = "greeting" /\ after.flow_state = "awaiting_intent"
                     \/ /\ before.flow_state = "calendar_check"
                        /\ after.flow_state \in {"offer_slots", "message_fallback_intro"}]_vars

\* The caller gave a first name and a last name and was then silent: the
\* question for the phone number was asked once more.
SilentAtPhoneQuestion ==
    \E callSid \in DOMAIN conversationMemory :
        /\ conversationMemory[callSid].flow_state = "appointment_phone"
        /\ IsSet(conversationMemory[callSid].first_name)
        /\ IsSet(conversationMemory[callSid].last_name)
        /\ conversationMemory[callSid].phone = NULL
        /\ conversationMemory[callSid].phone_retry = 0
        /\ conversationMemory[callSid].empty_speech_count = 1
        /\ exchange.userSpeech = ""

\* C40: of two requests that overlap for a call not seen before, the first
\* creates the record and the second finds it: every request in flight has
\* the record of its call, a record once made stays, and none is put back
\* to the record a call starts with.
OneRecordForCall ==
    /\ [](\A id \in DOMAIN inflight : inflight[id].call \in DOMAIN conversationMemory)
    /\ [][\A callSid \in DOMAIN conversationMemory :
              /\ callSid \in DOMAIN conversationMemory'
              /\ conversationMemory'[callSid] = NewRecord
                     => conversationMemory[callSid] = NewRecord
              /\ conversationMemory[callSid].greeting_done
                     => conversationMemory'[callSid].greeting_done]_vars

\* Two requests with an utterance have arrived for a call not seen before,
\* and both wait for the language model: the record is the one the first
\* of them created, and one of them goes on to end the greeting on it.
TwoRequestsOpenCall ==
    \E callSid \in DOMAIN conversationMemory :
        /\ conversationMemory[callSid] = NewRecord
        /\ Cardinality(DOMAIN inflight) = 2
        /\ \A id \in DOMAIN inflight :
               /\ inflight[id].call = callSid
               /\ inflight[id].at = "reply"
               /\ inflight[id].userSpeech # ""

====
